---------------------------- MODULE Spec2Model ----------------------------
(***************************************************************************)
(* Navigation engine of the galaxy map (GalaxyMap component): the player   *)
(* ship position, the visual map offset, momentum, the hold-to-activate    *)
(* autopilot and the collision with the circular barrier.                  *)
(*                                                                         *)
(* Numbers.  The component computes in floating point; the model computes  *)
(* in fixed point:                                                         *)
(*   - map offsets are integers counting 1/Res of a pixel;                 *)
(*   - ship coordinates are integers counting 1/(12*Res) of a world        *)
(*     percent, so that "delta / 12" world percent and "delta" pixels are  *)
(*     the same integer;                                                   *)
(*   - velocities are integers counting 1/VelScale of a pixel per frame;   *)
(*   - results of divisions are truncated toward zero.                     *)
(* Vectors are pairs <<x, y>>.                                             *)
(*                                                                         *)
(* React.  A handler's setState calls are batched and applied in order at  *)
(* the end of the handler; the refs that mirror state (shipPosRef,         *)
(* velocityRef) are synchronised by the render that follows, and effects   *)
(* whose dependencies changed are re-run by that render.  An action of the *)
(* model is one invocation of a handler (or of an animation frame          *)
(* callback) together with that render.  Animations started by animate()   *)
(* are taken at their end value.                                           *)
(***************************************************************************)
EXTENDS Integers, Sequences, FiniteSets, TLC

(***************************************************************************)
(* Bounds of the model.                                                    *)
(***************************************************************************)
Res == 25
VelScale == 1000000
TimeStep == 1250
MaxClockSteps == 3
MaxEvents == 3
MaxAutoTicks == 4
MaxMomentumTicks == 4
MaxDecayTicks == 1470
NpcRes == 100
AngleScale == 1000
MaxNpcTicks == 6
MaxPauseTicks == 425
StarRes == 20
MaxFrames == 2
FrameMs == 16
MaxStarUpdates == 182
MaxSaves == 2
MaxSessions == 2

(***************************************************************************)
(* Constants of the program.                                               *)
(***************************************************************************)
WorldWidth == 200
WorldHeight == 200
PixelsPerPercent == 12
MomentumDivisor == 20
BarrierRadius == 1200
BandInner == 1190
BandOuter == 1220
RepelForce == 15
WrapThreshold == 5000
HoldMs == 2500
FrictionPermille == 995
SpeedTenths == 18
VelocityPercent == 8
MaxVelocityTenths == 15
StopPermille == 1
MomentumScaleTenths == 15
CanvasSize == <<448, 650>>
PauseDistance == 8
PauseResumeDistance == 15
PauseCooldownTicks == 600
PauseMinTicks == 180
PauseSpanTicks == 240
DomainRadius == 35
DomainSlack == 36
BaseSpeedTenths == 2
DefaultRadius == 20
DefaultCount == 7
NoWorldDistance == 100

NULL == -1

(***************************************************************************)
(* Arithmetic helpers.                                                     *)
(***************************************************************************)
Abs(a) == IF a < 0 THEN -a ELSE a

Max2(a, b) == IF a > b THEN a ELSE b

Min2(a, b) == IF a < b THEN a ELSE b

\* Division truncated toward zero (the fixed-point image of a float division).
DivTZ(a, b) == IF a >= 0 THEN a \div b ELSE -((-a) \div b)

RECURSIVE GCD(_, _)
GCD(a, b) == IF b = 0 THEN a ELSE GCD(b, a % b)

RECURSIVE SqrtSearch(_, _, _)
\* Smallest r in lo..hi with r * r >= s (binary search).
SqrtSearch(s, lo, hi) ==
  IF lo >= hi THEN lo
  ELSE LET mid == (lo + hi) \div 2
       IN  IF mid * mid >= s THEN SqrtSearch(s, lo, mid)
           ELSE SqrtSearch(s, mid + 1, hi)

\* Math.sqrt, rounded up to the resolution: for an integer a,
\* sqrt(s) > a exactly when CeilSqrt(s) > a, and sqrt(s) <= a exactly when
\* CeilSqrt(s) <= a.
CeilSqrt(s) == SqrtSearch(s, 0, 46340)

RECURSIVE WrapUp(_, _, _)
WrapUp(v, min, range) == IF v < min THEN WrapUp(v + range, min, range) ELSE v

RECURSIVE WrapDownInclusive(_, _, _)
\* A faulty second loop of wrap: the upper end is kept.
WrapDownInclusive(v, max, range) ==
  IF v > max THEN WrapDownInclusive(v - range, max, range) ELSE v

RECURSIVE WrapDown(_, _, _)
WrapDown(v, max, range) == IF v >= max THEN WrapDown(v - range, max, range) ELSE v

\* wrap(value, min, max)
wrap(value, min, max) ==
  LET range == max - min
  IN  IF range <= 0 THEN min
      ELSE WrapDown(WrapUp(value, min, range), max, range)

\* Fixed-point images of the program's quantities.
ShipUnit == PixelsPerPercent * Res
ShipWidth == WorldWidth * ShipUnit
ShipHeight == WorldHeight * ShipUnit
MaxVel == (MaxVelocityTenths * VelScale) \div 10
StopVel == (StopPermille * VelScale) \div 1000
CanvasCenter == <<(CanvasSize[1] * Res) \div 2, (CanvasSize[2] * Res) \div 2>>

(***************************************************************************)
(* Angles, in 1/AngleScale of a radian.                                    *)
(***************************************************************************)
Pi == (31416 * AngleScale) \div 10000

TwoPi == (62832 * AngleScale) \div 10000

\* The sine series on [-Pi/2, Pi/2], scaled by AngleScale.
SinSeries(x) ==
  LET x2 == (x * x) \div AngleScale
      t3 == DivTZ(x2 * x, 6 * AngleScale)
      t5 == DivTZ(t3 * x2, 20 * AngleScale)
      t7 == DivTZ(t5 * x2, 42 * AngleScale)
  IN  x - t3 + t5 - t7

\* Math.sin, scaled by AngleScale.
Sin(a) ==
  LET r == a % TwoPi
  IN  IF r <= Pi \div 2 THEN SinSeries(r)
      ELSE IF r <= Pi + Pi \div 2 THEN SinSeries(Pi - r)
      ELSE SinSeries(r - TwoPi)

\* Math.cos, scaled by AngleScale.
Cos(a) == Sin(a + Pi \div 2)

\* Math.atan of ay / ax for 0 <= ay <= ax, ax > 0.
AtanUnit(ay, ax) ==
  LET z == (ay * AngleScale) \div ax
  IN  (z * 7854) \div 10000 + (273 * z * (AngleScale - z)) \div (1000 * AngleScale)

\* Math.atan2(y, x)
Atan2(y, x) ==
  LET ax == Abs(x)
      ay == Abs(y)
      a == IF ax = 0 /\ ay = 0 THEN 0
           ELSE IF ay <= ax THEN AtanUnit(ay, ax)
           ELSE Pi \div 2 - AtanUnit(ax, ay)
  IN  IF x >= 0 THEN (IF y >= 0 THEN a ELSE -a)
      ELSE (IF y >= 0 THEN Pi - a ELSE a - Pi)

(***************************************************************************)
(* Inputs of the model.                                                    *)
(***************************************************************************)
\* Pointer deltas of one move event, in pixels.
Deltas == {<<1, 0>>, <<12, 0>>, <<0, 12>>, <<45, -20>>}

\* Pointer positions relative to the canvas centre, with their length:
\* <<dirX, dirY, length>>.  <<0, 0, 0>> is a pointer on the centre.
Pointers == {<<0, 0, 0>>, <<7, 0, 7>>, <<30, 40, 50>>}

\* Map offsets (pixels) found in the saved player data at start-up; the
\* first is the default of a session without saved data.
SavedMaps == {<<0, 0>>, <<1186, 0>>, <<712, 950>>, <<3000, 4999>>}

(***************************************************************************)
(* State.                                                                  *)
(***************************************************************************)
VARIABLES
  shipPosition,        \* useState shipPosition (mirrored by shipPosRef)
  mapOffset,           \* motion values mapX, mapY
  velocity,            \* useState velocity (mirrored by velocityRef)
  isDragging,
  isAutoPilot,
  isHolding,
  holdStartTime,       \* NULL or a time stamp
  holdProgress,        \* permille of the hold window
  hasMoved,
  isDecelerating,
  autoPilotDirection,  \* <<dirX, dirY, length>>: the unit vector dir / length
  lastMoveTime,        \* ref lastMoveTime
  now,                 \* Date.now()
  momentumLoop,        \* an applyMomentum frame is scheduled
  lastCollision,       \* the latest call of checkBarrierCollision
  last,                \* the latest step: handler, input, what it signalled
  press,               \* history of the current press
  origin,              \* ship position and map offset at start-up
  events,              \* number of pointer events so far
  autoTicks,           \* autopilot frames since its activation
  momTicks,            \* momentum frames since the loop started
  wrapped,             \* the latest call of wrap on its own
  shipRotation,        \* motion value shipRotation, in 1/Res of a degree
  targetRotation,      \* ref targetRotation, in 1/Res of a degree
  hasReset,            \* resetShipPosition has been called
  wanderingShip,       \* useState wanderingShip (the merchant ship)
  points,              \* useState points (the points of interest)
  shipTimer,           \* the interval of updateWanderingShip: started, the
                       \* points its callback closed over, its ticks so far
  starField,           \* the latest cell of stars generateLayer has drawn,
                       \* and the base stars of every cell drawn so far
  shootingStars,       \* refs shootingStarsRef and lastShootingStarTime, the
                       \* stars the latest update dropped, the updates so far
  store,               \* the worlds of the remote store, the item of the
                       \* local cache, isLoadingWorlds, whether the ids of
                       \* points are strings, the errors logged, the list
                       \* last given to savePoints
  editing,             \* isAdmin, draggingPoint, resizingPoint and the
                       \* resize start, the scales of the points, what the
                       \* last render and the registered document listeners
                       \* captured, the calls of savePoints
  music                \* backgroundMusicService: isUsingSynthetic,
                       \* isPlaying, isPaused, currentTrack,
                       \* currentTrackIndex, the fade interval, the calls
                       \* of its methods and where each one stands, the
                       \* audio elements created and those that play

vars == <<shipPosition, mapOffset, velocity, isDragging, isAutoPilot, isHolding,
          holdStartTime, holdProgress, hasMoved, isDecelerating,
          autoPilotDirection, lastMoveTime, now, momentumLoop, lastCollision,
          last, press, origin, events, autoTicks, momTicks, wrapped,
          shipRotation, targetRotation, hasReset, wanderingShip, points,
          shipTimer, starField, shootingStars, store, editing, music>>

\* The star canvas, the storage, the point editor and the music service,
\* which navigation and the merchant ship leave alone.
scenery == <<starField, shootingStars, store, editing, music>>

(***************************************************************************)
(* Collision and boundary model.                                           *)
(***************************************************************************)
\* Math.sqrt(x * x + y * y), rounded up to the resolution.  Beyond the band
\* the larger coordinate stands for the distance (it is a lower bound of it
\* and already exceeds the band), which keeps the squares in range.
DistanceFromCenter(x, y) ==
  IF Max2(Abs(x), Abs(y)) > BandOuter * Res
    THEN Max2(Abs(x), Abs(y))
    ELSE CeilSqrt(x * x + y * y)

\* A faulty band test: the inner edge is included.
InBarrierBandClosed(distance) ==
  distance >= BandInner * Res /\ distance <= BandOuter * Res

\* The band test of checkBarrierCollision.
InBarrierBand(distance) ==
  distance > BandInner * Res /\ distance <= BandOuter * Res

\* A faulty collision test: the collision point is the proposed offset
\* itself, not its projection on the barrier.
checkBarrierCollisionUnprojected(proposedMapX, proposedMapY) ==
  LET distance == DistanceFromCenter(proposedMapX, proposedMapY)
  IN  IF InBarrierBand(distance)
        THEN [isColliding |-> TRUE,
              collisionPoint |-> <<CanvasCenter[1] + proposedMapX,
                                   CanvasCenter[2] + proposedMapY>>]
        ELSE [isColliding |-> FALSE, collisionPoint |-> <<0, 0>>]

\* checkBarrierCollision(proposedMapX, proposedMapY); the canvas is mounted.
\* cos(atan2(y, x)) is x / distance.
checkBarrierCollision(proposedMapX, proposedMapY) ==
  LET distance == DistanceFromCenter(proposedMapX, proposedMapY)
  IN  IF InBarrierBand(distance)
        THEN [isColliding |-> TRUE,
              collisionPoint |->
                <<CanvasCenter[1]
                    + DivTZ(proposedMapX * (BarrierRadius * Res), distance),
                  CanvasCenter[2]
                    + DivTZ(proposedMapY * (BarrierRadius * Res), distance)>>]
        ELSE [isColliding |-> FALSE, collisionPoint |-> <<0, 0>>]

\* The displacement normalized * repelForce of repelPlayer, in map units; it
\* is <<0, 0>> when the collision point is the canvas centre.
RepelVector(collisionPoint) ==
  LET dirX == collisionPoint[1] - CanvasCenter[1]
      dirY == collisionPoint[2] - CanvasCenter[2]
      distance == CeilSqrt(dirX * dirX + dirY * dirY)
  IN  IF distance > 0
        THEN <<DivTZ(dirX * RepelForce, distance),
               DivTZ(dirY * RepelForce, distance)>>
        ELSE <<0, 0>>

\* repelPlayer: the map offset the animation ends at.
RepelMap(m, collisionPoint) ==
  <<m[1] - RepelVector(collisionPoint)[1], m[2] - RepelVector(collisionPoint)[2]>>

\* repelPlayer: the updater given to setShipPosition.
RepelShip(s, collisionPoint) ==
  <<wrap(s[1] + RepelVector(collisionPoint)[1], 0, ShipWidth),
    wrap(s[2] + RepelVector(collisionPoint)[2], 0, ShipHeight)>>

(***************************************************************************)
(* Navigation engine: helpers of the handlers.                             *)
(***************************************************************************)
\* A pointer delta in map units.
ToUnits(delta) == <<delta[1] * Res, delta[2] * Res>>

\* A faulty drag velocity: the clamp is missing.
DragVelocityAxisUnclamped(deltaPx) == deltaPx * ((VelocityPercent * VelScale) \div 100)

\* Math.max(-1.5, Math.min(1.5, delta * 0.08)) on one axis.
DragVelocityAxis(deltaPx) ==
  Max2(-MaxVel, Min2(MaxVel, deltaPx * ((VelocityPercent * VelScale) \div 100)))

DragVelocity(delta) == <<DragVelocityAxis(delta[1]), DragVelocityAxis(delta[2])>>

\* A faulty proposed position: the ship moves with the pointer.
ProposedShipSameWay(s, step) ==
  <<wrap(s[1] + step[1], 0, ShipWidth), wrap(s[2] + step[2], 0, ShipHeight)>>

\* proposedX, proposedY of a step in which the ship moves by step (ship
\* units) against the pointer.
ProposedShip(s, step) ==
  <<wrap(s[1] - step[1], 0, ShipWidth), wrap(s[2] - step[2], 0, ShipHeight)>>

\* proposedMapX, proposedMapY: currentMap + (shipPosRef.current - proposed) * 12
ProposedMap(m, s, proposed) ==
  <<m[1] + (s[1] - proposed[1]), m[2] + (s[2] - proposed[2])>>

\* One coordinate of the map after a drag step, with the visual wrap.
WrapMapAxis(v) ==
  IF v > WrapThreshold * Res THEN v - WrapThreshold * Res * 2
  ELSE IF v < -(WrapThreshold * Res) THEN v + WrapThreshold * Res * 2
  ELSE v

\* newMapX, newMapY of a drag step that is allowed to move.
DragMap(m, d) == <<WrapMapAxis(m[1] + d[1]), WrapMapAxis(m[2] + d[2])>>

\* shipPosition after a colliding drag step.  The handler queues two updates:
\* repelPlayer's updater (prev => prev + repel), then the plain value
\* {newX, newY} with newX = shipPosRef.current.x; the plain value replaces
\* what the updater produced.
DragCollisionShip(s, collisionPoint) ==
  LET queued == <<RepelShip(s, collisionPoint), s>>
  IN  queued[Len(queued)]

\* Math.sqrt(deltaX * deltaX + deltaY * deltaY) > 1
MovedBeyondThreshold(delta) == CeilSqrt(delta[1] * delta[1] + delta[2] * delta[2]) > 1

\* A faulty hold progress: the window is half as long.
HoldProgressHalfWindow(elapsed) == Min2((elapsed * 2000) \div HoldMs, 1000)

\* Math.min(elapsed / 2500, 1), in permille.
HoldProgressOf(elapsed) == Min2((elapsed * 1000) \div HoldMs, 1000)

\* The condition of the momentum effect.
MomentumGuard(dragging, autoPilot, vel) ==
  /\ ~dragging
  /\ ~autoPilot
  /\ (Abs(vel[1]) > StopVel \/ Abs(vel[2]) > StopVel)

\* A faulty friction: the velocity does not decay.
FrictionNone(v) == v

\* currentVel * friction on one axis.
Friction(v) == DivTZ(v * FrictionPermille, 1000)

\* deltaX = newVelX * 1.5, in map units.
MomentumDelta(newVel) ==
  <<DivTZ(newVel[1] * MomentumScaleTenths * Res, 10 * VelScale),
    DivTZ(newVel[2] * MomentumScaleTenths * Res, 10 * VelScale)>>

\* deltaX / 20 world percent, in ship units.
MomentumShipStep(d) ==
  <<DivTZ(d[1] * PixelsPerPercent, MomentumDivisor),
    DivTZ(d[2] * PixelsPerPercent, MomentumDivisor)>>

\* A faulty autopilot step: the speed is the momentum factor 1.5.
AutoPilotDeltaSlow(dir) ==
  <<DivTZ(dir[1] * MomentumScaleTenths * Res, 10 * dir[3]),
    DivTZ(dir[2] * MomentumScaleTenths * Res, 10 * dir[3])>>

\* deltaX = autoPilotDirection.x * speed, in map units.
AutoPilotDelta(dir) ==
  <<DivTZ(dir[1] * SpeedTenths * Res, 10 * dir[3]),
    DivTZ(dir[2] * SpeedTenths * Res, 10 * dir[3])>>

\* updateAutoPilotDirection: the direction is replaced when length > 0.
UpdatedDirection(dir, pointer) == IF pointer[3] > 0 THEN pointer ELSE dir

\* Math.atan of the ratios |y| / |x| (reduced) of the pointer vectors of the
\* model, in hundredths of a degree.
AtanCenti(ay, ax) ==
  LET g == GCD(ay, ax)
      r == <<ay \div g, ax \div g>>
  IN  CASE r = <<1, 1>> -> 4500
        [] r = <<4, 9>> -> 2396
        [] r = <<4, 3>> -> 5313
        [] r = <<1, 30>> -> 191
        [] r = <<2, 1>> -> 6343

\* Math.atan2(y, x) in hundredths of a degree, where a zero y is -0 (the
\* negation of a zero delta): atan2(-0, x) is -180 for x <= -0 and -0 for
\* x > 0.
Atan2Centi(y, x) ==
  IF y = 0 THEN (IF x > 0 THEN 0 ELSE -18000)
  ELSE IF x = 0 THEN (IF y > 0 THEN 9000 ELSE -9000)
  ELSE IF x > 0 THEN (IF y > 0 THEN AtanCenti(y, x) ELSE -AtanCenti(-y, x))
  ELSE (IF y > 0 THEN 18000 - AtanCenti(y, -x) ELSE AtanCenti(-y, -x) - 18000)

\* Math.atan2(-deltaY, -deltaX) * (180 / Math.PI) + 90
Heading(delta) == DivTZ((Atan2Centi(-delta[2], -delta[1]) + 9000) * Res, 100)

\* targetRotation after a drag step.
DragHeading(target, delta) ==
  IF MovedBeyondThreshold(delta) THEN Heading(delta) ELSE target

\* newAngle of smoothRotation: 15 % of the shortest angular difference.
SmoothedAngle(currentAngle, target) ==
  LET normalizedCurrent == currentAngle % (360 * Res)
      normalizedTarget == target % (360 * Res)
      raw == normalizedTarget - normalizedCurrent
      diff == IF raw > 180 * Res THEN raw - 360 * Res
              ELSE IF raw < -(180 * Res) THEN raw + 360 * Res
              ELSE raw
  IN  currentAngle + DivTZ(diff * 15, 100)

\* What a step did: the handler, its pointer delta, the result of its
\* collision test, the number of collision signals (sound and notification)
\* and the branch it took.
Step(op, delta, collided, signals, note) ==
  [op |-> op, delta |-> delta, collided |-> collided,
   collisionSignals |-> signals, note |-> note]

Check(p, c) ==
  [done |-> TRUE, proposed |-> p, isColliding |-> c.isColliding,
   collisionPoint |-> c.collisionPoint]

\* A faulty render: the clean-up of the momentum effect does not cancel the
\* scheduled frame.
RenderKeepLoop(newDragging, newAutoPilot, newVel, decel) ==
  LET changed == newDragging # isDragging \/ newAutoPilot # isAutoPilot
      start == MomentumGuard(newDragging, newAutoPilot, newVel)
  IN  /\ momentumLoop' = IF changed /\ start THEN TRUE ELSE momentumLoop
      /\ isDecelerating' = IF changed /\ start THEN TRUE ELSE decel
      /\ momTicks' = IF changed /\ start THEN 0 ELSE momTicks

\* The render after a handler: the momentum effect is cleaned up and re-run
\* when isDragging or isAutoPilot changed; it starts the loop and sets
\* isDecelerating when its condition holds.
Render(newDragging, newAutoPilot, newVel, decel) ==
  LET changed == newDragging # isDragging \/ newAutoPilot # isAutoPilot
      start == MomentumGuard(newDragging, newAutoPilot, newVel)
  IN  /\ momentumLoop' = IF changed THEN start ELSE momentumLoop
      /\ isDecelerating' = IF changed /\ start THEN TRUE ELSE decel
      /\ momTicks' = IF changed THEN 0 ELSE momTicks

(***************************************************************************)
(* Start-up.                                                               *)
(***************************************************************************)
\* The ship position saved together with a map offset: the one a drag from
\* the default (50, 50), (0, 0) leaves.
SavedShip(m) ==
  <<wrap(50 * ShipUnit - m[1] * Res, 0, ShipWidth),
    wrap(50 * ShipUnit - m[2] * Res, 0, ShipHeight)>>

\* Values of Math.random(), as fractions <<numerator, denominator>>.
Randoms == {<<0, 1>>, <<999, 1000>>}

\* Math.random() * span
Draw(r, span) == (span * r[1]) \div r[2]

\* The state useState gives wanderingShip.
InitialShip ==
  [x |-> 50 * NpcRes, y |-> 45 * NpcRes, velocityX |-> 0, velocityY |-> 0,
   rotation |-> 0, direction |-> 0, targetDirection |-> 0,
   directionChangeTimer |-> 0,
   nextDirectionChange |-> 300 * NpcRes + Draw(<<1, 2>>, 600 * NpcRes),
   isMoving |-> TRUE, distanceToPlayer |-> 100 * NpcRes, isPaused |-> FALSE,
   pauseTimer |-> 0, nearestWorldDistance |-> 100 * NpcRes,
   hasRecentlyPaused |-> FALSE, pauseCooldown |-> 0]

\* The state of a session whose saved map offset is m; with released, the
\* state right after the release of a drag whose last move left velocity vel
\* and the target rotation target (the momentum effect has just run); with
\* autoPilot, the hold of that drag had activated the autopilot, which is
\* still following a pointer to the right of the canvas centre.
StartNavigation(m, vel, released, autoPilot, target) ==
  /\ shipPosition = SavedShip(m)
  /\ mapOffset = ToUnits(m)
  /\ velocity = vel
  /\ isDragging = FALSE
  /\ isAutoPilot = autoPilot
  /\ isHolding = FALSE
  /\ holdStartTime = NULL
  /\ holdProgress = 0
  /\ hasMoved = released
  /\ isDecelerating = (released /\ MomentumGuard(FALSE, autoPilot, vel))
  /\ autoPilotDirection = IF autoPilot THEN <<7, 0, 7>> ELSE <<0, 0, 1>>
  /\ now = TimeStep
  /\ lastMoveTime = TimeStep
  /\ momentumLoop = (released /\ MomentumGuard(FALSE, autoPilot, vel))
  /\ lastCollision = [done |-> FALSE, proposed |-> <<0, 0>>,
                      isColliding |-> FALSE, collisionPoint |-> <<0, 0>>]
  /\ last = Step("Init", <<0, 0>>, FALSE, 0, "")
  /\ press = [moved |-> FALSE, start |-> NULL, activations |-> 0]
  /\ origin = [ship |-> SavedShip(m), map |-> ToUnits(m)]
  /\ events = 0
  /\ autoTicks = 0
  /\ momTicks = 0
  /\ wrapped = [done |-> FALSE, value |-> 0, min |-> 0, max |-> 0,
                result |-> 0, again |-> 0]
  /\ shipRotation = 0
  /\ targetRotation = target
  /\ hasReset = FALSE

\* The star canvas before its first frame.
StartStars ==
  /\ starField = [cell |-> <<0, 0, 0>>, stars |-> <<>>, seen |-> <<>>,
                  frames |-> 0]
  /\ shootingStars = [pool |-> <<>>, removed |-> <<>>,
                      lastShootingStarTime |-> 0, updates |-> 0]

\* The point editor of the first render: nothing is dragged or resized, no
\* point has a scale of its own, the document listeners are not attached.
\* Scales are in hundredths.
StartEditing(admin) ==
  editing = [isAdmin |-> admin, draggingPoint |-> NULL, resizingPoint |-> NULL,
             resizeStartScale |-> 100, scales |-> <<>>,
             rendered |-> [points |-> <<>>, scales |-> <<>>,
                           draggingPoint |-> NULL],
             listeners |-> [attached |-> FALSE, isDragging |-> FALSE,
                            points |-> <<>>, scales |-> <<>>,
                            draggingPoint |-> NULL, resizingPoint |-> NULL,
                            resizeStartScale |-> 100],
             stale |-> FALSE, given |-> <<>>, saveCalls |-> 0, events |-> 0]

\* No fade interval is running.
NoFade == [kind |-> "none", waiter |-> NULL, left |-> 0, from |-> NULL, to |-> NULL]

\* The music service after its constructor and preloadTracks: synthetic says
\* whether no file could be loaded and setupSyntheticMusic took over.
StartMusic(synthetic) ==
  music = [isUsingSynthetic |-> synthetic, isPlaying |-> FALSE,
           isPaused |-> FALSE, currentTrack |-> NULL, currentTrackIndex |-> 0,
           fade |-> NoFade, calls |-> <<>>, audios |-> 0, playing |-> {},
           oscillators |-> FALSE, overlapped |-> FALSE,
           settled |-> [call |-> NULL, op |-> "", how |-> ""]]

\* localStorage without the item "xenopets-galaxy-points".
NoCache == [kind |-> "missing", list |-> <<>>]

\* The storage of a session that finds the local cache at cache and will
\* find the worlds remote in the remote store: loading has not begun, no
\* point list has been given to savePoints.
StartStore(remote, cache) ==
  store = [remote |-> remote, cache |-> cache, isLoadingWorlds |-> TRUE,
           loaded |-> FALSE, stringIds |-> FALSE, errors |-> 0,
           given |-> <<>>, saves |-> 0, sessions |-> 1]

\* That session, with the merchant ship and the points of interest as the
\* first render leaves them.
StartWith(m, vel, released, autoPilot, target) ==
  /\ StartNavigation(m, vel, released, autoPilot, target)
  /\ StartStars
  /\ StartEditing(FALSE)
  /\ StartMusic(FALSE)
  /\ StartStore(<<>>, NoCache)
  /\ wanderingShip = InitialShip
  /\ points = <<>>
  /\ shipTimer = [started |-> FALSE, points |-> <<>>, ticks |-> 0]

Start(m, vel, released) == StartWith(m, vel, released, FALSE, 0)

Init == \E m \in SavedMaps : Start(m, <<0, 0>>, FALSE)

(***************************************************************************)
(* Handlers.                                                               *)
(***************************************************************************)
\* A faulty cancellation, without the early return: the press goes on to
\* start a drag session and to arm the hold timer.
CancelAutoPilotAndDrag(op) ==
  /\ isAutoPilot' = FALSE
  /\ isDragging' = TRUE
  /\ hasMoved' = FALSE
  /\ holdStartTime' = now
  /\ isHolding' = TRUE
  /\ holdProgress' = 0
  /\ Render(TRUE, FALSE, velocity, isDecelerating)
  /\ press' = [moved |-> FALSE, start |-> now, activations |-> 0]
  /\ last' = Step(op, <<0, 0>>, FALSE, 0, "cancelled")
  /\ UNCHANGED <<shipPosition, mapOffset, velocity, autoPilotDirection,
                 lastMoveTime, now, lastCollision, origin, wrapped, shipRotation, hasReset, wanderingShip, points, shipTimer, scenery, targetRotation, autoTicks>>

\* The early return of handleMouseDown and handleTouchStart while the
\* autopilot is active.
CancelAutoPilot(op) ==
  /\ isAutoPilot' = FALSE
  /\ Render(isDragging, FALSE, velocity, isDecelerating)
  /\ last' = Step(op, <<0, 0>>, FALSE, 0, "cancelled")
  /\ UNCHANGED <<shipPosition, mapOffset, velocity, isDragging, isHolding,
                 holdStartTime, holdProgress, hasMoved, autoPilotDirection,
                 lastMoveTime, now, lastCollision, press, origin, wrapped, shipRotation, hasReset, wanderingShip, points, shipTimer, scenery, targetRotation, autoTicks>>

\* The rest of handleMouseDown and handleTouchStart: the drag session starts
\* and the hold timer is armed.
BeginDrag(op, pointer) ==
  /\ isDragging' = TRUE
  /\ hasMoved' = FALSE
  /\ holdStartTime' = now
  /\ isHolding' = TRUE
  /\ holdProgress' = 0
  /\ autoPilotDirection' = UpdatedDirection(autoPilotDirection, pointer)
  /\ Render(TRUE, isAutoPilot, velocity, isDecelerating)
  /\ press' = [moved |-> FALSE, start |-> now, activations |-> 0]
  /\ last' = Step(op, <<0, 0>>, FALSE, 0, "began")
  /\ UNCHANGED <<shipPosition, mapOffset, velocity, isAutoPilot, lastMoveTime,
                 now, lastCollision, origin, wrapped, shipRotation, hasReset, wanderingShip, points, shipTimer, scenery, targetRotation, autoTicks>>

\* handleMouseDown
handleMouseDown(pointer) ==
  /\ events < MaxEvents
  /\ events' = events + 1
  /\ IF isAutoPilot THEN CancelAutoPilot("MouseDown")
                    ELSE BeginDrag("MouseDown", pointer)

\* handleTouchStart; a touch list without a first touch does nothing.
handleTouchStart(pointer, hasTouch) ==
  /\ events < MaxEvents
  /\ events' = events + 1
  /\ IF isAutoPilot THEN CancelAutoPilot("TouchStart")
     ELSE IF hasTouch THEN BeginDrag("TouchStart", pointer)
     ELSE /\ last' = Step("TouchStart", <<0, 0>>, FALSE, 0, "ignored")
          /\ UNCHANGED <<shipPosition, mapOffset, velocity, isDragging,
                         isAutoPilot, isHolding, holdStartTime, holdProgress,
                         hasMoved, isDecelerating, autoPilotDirection,
                         lastMoveTime, now, momentumLoop, lastCollision, press,
                         origin, wrapped, shipRotation, hasReset, wanderingShip, points, shipTimer, scenery, targetRotation, autoTicks, momTicks>>

\* handleMouseMove and handleGlobalMouseMove (the map drag part)
handleMouseMove(delta) ==
  /\ isDragging
  /\ events < MaxEvents
  /\ events' = events + 1
  /\ LET d == ToUnits(delta)
         dragVel == IF now - lastMoveTime > 0 THEN DragVelocity(delta)
                                              ELSE velocity
         proposed == ProposedShip(shipPosition, d)
         proposedMap == ProposedMap(mapOffset, shipPosition, proposed)
         collision == checkBarrierCollision(proposedMap[1], proposedMap[2])
         newVel == IF collision.isColliding THEN <<0, 0>> ELSE dragVel
     IN  /\ isHolding' = FALSE
         /\ holdProgress' = IF isHolding THEN 0 ELSE holdProgress
         /\ holdStartTime' = IF isHolding THEN NULL ELSE holdStartTime
         /\ velocity' = newVel
         /\ shipPosition' =
              IF collision.isColliding
                THEN DragCollisionShip(shipPosition, collision.collisionPoint)
                ELSE proposed
         /\ mapOffset' =
              IF collision.isColliding
                THEN RepelMap(mapOffset, collision.collisionPoint)
                ELSE DragMap(mapOffset, d)
         /\ hasMoved' = (hasMoved \/ MovedBeyondThreshold(delta))
         /\ targetRotation' = DragHeading(targetRotation, delta)
         /\ lastMoveTime' = now
         /\ lastCollision' = Check(proposedMap, collision)
         /\ Render(isDragging, isAutoPilot, newVel,
                   IF collision.isColliding THEN FALSE ELSE isDecelerating)
         /\ last' = Step("MouseMove", delta, collision.isColliding,
                         IF collision.isColliding THEN 1 ELSE 0,
                         IF collision.isColliding THEN "blocked" ELSE "moved")
  /\ press' = [press EXCEPT !.moved = TRUE]
  /\ UNCHANGED <<isDragging, isAutoPilot, autoPilotDirection, now, origin, wrapped, shipRotation, hasReset, wanderingShip, points, shipTimer, scenery,
                 autoTicks>>

\* handleMouseUp and handleGlobalMouseUp (the map drag part)
handleMouseUp ==
  /\ events < MaxEvents
  /\ events' = events + 1
  /\ isDragging' = FALSE
  /\ isHolding' = FALSE
  /\ holdProgress' = 0
  /\ holdStartTime' = NULL
  /\ velocity' = IF hasMoved THEN velocity ELSE <<0, 0>>
  /\ Render(FALSE, isAutoPilot, IF hasMoved THEN velocity ELSE <<0, 0>>,
            IF hasMoved THEN isDecelerating ELSE FALSE)
  /\ last' = Step("MouseUp", <<0, 0>>, FALSE, 0, "released")
  /\ UNCHANGED <<shipPosition, mapOffset, isAutoPilot, hasMoved,
                 autoPilotDirection, lastMoveTime, now, lastCollision, press,
                 origin, wrapped, shipRotation, hasReset, wanderingShip, points, shipTimer, scenery, targetRotation, autoTicks>>

\* The document mousemove listener installed while the autopilot is active.
trackPointer(pointer) ==
  /\ isAutoPilot
  /\ events < MaxEvents
  /\ events' = events + 1
  /\ autoPilotDirection' = UpdatedDirection(autoPilotDirection, pointer)
  /\ last' = Step("TrackPointer", <<0, 0>>, FALSE, 0, "tracked")
  /\ UNCHANGED <<shipPosition, mapOffset, velocity, isDragging, isAutoPilot,
                 isHolding, holdStartTime, holdProgress, hasMoved,
                 isDecelerating, lastMoveTime, now, momentumLoop,
                 lastCollision, press, origin, wrapped, shipRotation, hasReset, wanderingShip, points, shipTimer, scenery, targetRotation, autoTicks, momTicks>>

\* A faulty completion of the hold: the hold state is left armed.
ActivateAutoPilotKeepHold ==
  /\ isAutoPilot' = TRUE
  /\ autoTicks' = 0
  /\ Render(isDragging, TRUE, velocity, isDecelerating)
  /\ press' = [press EXCEPT !.activations = @ + 1]
  /\ last' = Step("HoldTick", <<0, 0>>, FALSE, 0, "activated")
  /\ UNCHANGED <<isHolding, holdProgress, holdStartTime>>

\* updateProgress at progress >= 1: setHoldProgress(progress) is replaced by
\* setHoldProgress(0) of the same batch; playAutoPilotActivationSound is
\* counted in press.activations.
ActivateAutoPilot ==
  /\ isAutoPilot' = TRUE
  /\ isHolding' = FALSE
  /\ holdProgress' = 0
  /\ holdStartTime' = NULL
  /\ autoTicks' = 0
  /\ Render(isDragging, TRUE, velocity, isDecelerating)
  /\ press' = [press EXCEPT !.activations = @ + 1]
  /\ last' = Step("HoldTick", <<0, 0>>, FALSE, 0, "activated")

\* One frame of updateProgress, scheduled while isHolding and holdStartTime
\* are set.
updateProgress ==
  /\ isHolding
  /\ holdStartTime # NULL
  /\ LET progress == HoldProgressOf(now - holdStartTime)
     IN  IF progress >= 1000
           THEN ActivateAutoPilot
           ELSE /\ holdProgress' = progress
                /\ last' = Step("HoldTick", <<0, 0>>, FALSE, 0, "progress")
                /\ UNCHANGED <<isAutoPilot, isHolding, holdStartTime, autoTicks,
                               momentumLoop, isDecelerating, momTicks, press>>
  /\ UNCHANGED <<shipPosition, mapOffset, velocity, isDragging, hasMoved,
                 autoPilotDirection, lastMoveTime, now, lastCollision, origin, wrapped, shipRotation, hasReset, wanderingShip, points, shipTimer, scenery, targetRotation,
                 events>>

\* One frame of autoPilotMovement, scheduled while isAutoPilot.
autoPilotMovement ==
  /\ isAutoPilot
  /\ autoTicks < MaxAutoTicks
  /\ autoTicks' = autoTicks + 1
  /\ LET d == AutoPilotDelta(autoPilotDirection)
         proposed == ProposedShip(shipPosition, d)
         proposedMap == ProposedMap(mapOffset, shipPosition, proposed)
         collision == checkBarrierCollision(proposedMap[1], proposedMap[2])
     IN  /\ lastCollision' = Check(proposedMap, collision)
         /\ IF collision.isColliding
              THEN /\ isAutoPilot' = FALSE
                   /\ velocity' = <<0, 0>>
                   /\ mapOffset' = RepelMap(mapOffset, collision.collisionPoint)
                   /\ shipPosition' =
                        RepelShip(shipPosition, collision.collisionPoint)
                   /\ Render(isDragging, FALSE, <<0, 0>>, FALSE)
                   /\ last' = Step("AutoPilotTick", <<0, 0>>, TRUE, 1, "blocked")
                   /\ UNCHANGED targetRotation
              ELSE /\ shipPosition' = proposed
                   /\ mapOffset' = <<mapOffset[1] + d[1], mapOffset[2] + d[2]>>
                   /\ last' = Step("AutoPilotTick", <<0, 0>>, FALSE, 0, "moved")
                   /\ targetRotation' = Heading(autoPilotDirection)
                   /\ UNCHANGED <<isAutoPilot, velocity, momentumLoop,
                                  isDecelerating, momTicks>>
  /\ UNCHANGED <<isDragging, isHolding, holdStartTime, holdProgress, hasMoved,
                 autoPilotDirection, lastMoveTime, now, press, origin, wrapped, shipRotation, hasReset, wanderingShip, points, shipTimer, scenery, events>>

\* One frame of applyMomentum.
applyMomentum ==
  /\ momentumLoop
  /\ momTicks' = momTicks + 1
  /\ IF Abs(velocity[1]) < StopVel /\ Abs(velocity[2]) < StopVel
       THEN /\ isDecelerating' = FALSE
            /\ velocity' = <<0, 0>>
            /\ momentumLoop' = FALSE
            /\ last' = Step("MomentumTick", <<0, 0>>, FALSE, 0, "stopped")
            /\ UNCHANGED <<shipPosition, mapOffset, lastCollision>>
       ELSE LET newVel == <<Friction(velocity[1]), Friction(velocity[2])>>
                d == MomentumDelta(newVel)
                proposed == ProposedShip(shipPosition, MomentumShipStep(d))
                proposedMap == ProposedMap(mapOffset, shipPosition, proposed)
                collision ==
                  checkBarrierCollision(proposedMap[1], proposedMap[2])
            IN  /\ lastCollision' = Check(proposedMap, collision)
                /\ IF collision.isColliding
                     THEN /\ isDecelerating' = FALSE
                          /\ velocity' = <<0, 0>>
                          /\ momentumLoop' = FALSE
                          /\ mapOffset' =
                               RepelMap(mapOffset, collision.collisionPoint)
                          /\ shipPosition' =
                               RepelShip(shipPosition, collision.collisionPoint)
                          /\ last' = Step("MomentumTick", <<0, 0>>, TRUE, 1,
                                          "blocked")
                     ELSE /\ shipPosition' = proposed
                          /\ mapOffset' =
                               <<mapOffset[1] + d[1], mapOffset[2] + d[2]>>
                          /\ velocity' = newVel
                          /\ last' = Step("MomentumTick", <<0, 0>>, FALSE, 0,
                                          "moved")
                          /\ UNCHANGED <<isDecelerating, momentumLoop>>
  /\ UNCHANGED <<isDragging, isAutoPilot, isHolding, holdStartTime,
                 holdProgress, hasMoved, autoPilotDirection, lastMoveTime, now,
                 press, origin, wrapped, shipRotation, hasReset, wanderingShip, points, shipTimer, scenery, targetRotation, events, autoTicks>>

\* Time passes while the pointer is pressed (Date.now() is read only by the
\* handlers of a press).
AdvanceTime ==
  /\ isDragging
  /\ now + TimeStep <= TimeStep * MaxClockSteps
  /\ now' = now + TimeStep
  /\ last' = Step("AdvanceTime", <<0, 0>>, FALSE, 0, "time")
  /\ UNCHANGED <<shipPosition, mapOffset, velocity, isDragging, isAutoPilot,
                 isHolding, holdStartTime, holdProgress, hasMoved,
                 isDecelerating, autoPilotDirection, lastMoveTime, momentumLoop,
                 lastCollision, press, origin, wrapped, shipRotation, hasReset, wanderingShip, points, shipTimer, scenery, targetRotation, events, autoTicks, momTicks>>

MouseDown == \E pointer \in Pointers : handleMouseDown(pointer)

TouchStart ==
  \E pointer \in Pointers, hasTouch \in BOOLEAN :
    handleTouchStart(pointer, hasTouch)

MouseMove == \E delta \in Deltas : handleMouseMove(delta)

MouseUp == handleMouseUp

TrackPointer == \E pointer \in Pointers : trackPointer(pointer)

HoldTick == updateProgress

AutoPilotTick == autoPilotMovement

MomentumTick == momTicks < MaxMomentumTicks /\ applyMomentum

Next ==
  \/ MouseDown
  \/ TouchStart
  \/ MouseMove
  \/ MouseUp
  \/ TrackPointer
  \/ HoldTick
  \/ AutoPilotTick
  \/ MomentumTick
  \/ AdvanceTime

Spec == Init /\ [][Next]_vars

(***************************************************************************)
(* The collision model on its own: checkBarrierCollision applied to        *)
(* proposed offsets on and around the band.                                *)
(***************************************************************************)
\* Coordinates of the proposed offsets, in map units: the band edges, one
\* unit beyond them, and the legs of right triangles whose hypotenuse is a
\* band edge (714, 952, 1190 and 732, 976, 1220).
ProbeCoordinates ==
  {0, 714 * Res, 952 * Res, 732 * Res, 976 * Res, 850 * Res,
   BandInner * Res, BandInner * Res + 1, BarrierRadius * Res,
   BandOuter * Res, BandOuter * Res + 1, -(BandInner * Res), -(976 * Res)}

CheckProposal(p) ==
  /\ lastCollision' = Check(p, checkBarrierCollision(p[1], p[2]))
  /\ last' = Step("CheckBarrierCollision", <<0, 0>>,
                  checkBarrierCollision(p[1], p[2]).isColliding, 0, "checked")
  /\ UNCHANGED <<shipPosition, mapOffset, velocity, isDragging, isAutoPilot,
                 isHolding, holdStartTime, holdProgress, hasMoved,
                 isDecelerating, autoPilotDirection, lastMoveTime, now,
                 momentumLoop, press, origin, wrapped, shipRotation, hasReset, wanderingShip, points, shipTimer, scenery, targetRotation, events, autoTicks, momTicks>>

CollisionNext == \E x \in ProbeCoordinates, y \in ProbeCoordinates : CheckProposal(<<x, y>>)

CollisionSpec == Init /\ [][CollisionNext]_vars

(***************************************************************************)
(* The momentum loop on its own: the frames that follow the release of a   *)
(* drag, with no further input.                                           *)
(***************************************************************************)
\* The pointer deltas of the last move before the release.
ReleaseDeltas == {<<2, 0>>, <<12, 0>>, <<0, -12>>, <<19, 19>>, <<-30, 1>>, <<1, -2>>}

MomentumInit ==
  \E m \in SavedMaps, delta \in ReleaseDeltas : Start(m, DragVelocity(delta), TRUE)

MomentumNext == applyMomentum

MomentumSpec == MomentumInit /\ [][MomentumNext]_vars

(***************************************************************************)
(* wrap on its own: the function applied to values below, in, on the ends  *)
(* of and beyond a range.                                                  *)
(***************************************************************************)
\* The ranges <<min, max>>: the world in ship units, and two ranges with
\* min # 0.
WrapRanges == {<<0, ShipWidth>>, <<-ShipUnit, 3 * ShipUnit>>, <<5 - ShipWidth, 6>>}

\* The values wrap is applied to.
WrapValues ==
  (-8 .. 8) \cup
  {-(3 * ShipWidth) - 7, -ShipWidth - 1, -ShipWidth, ShipWidth - 1, ShipWidth,
   ShipWidth + 1, 2 * ShipWidth, 3 * ShipWidth + 7}

CallWrap(v, r) ==
  /\ wrapped' = [done |-> TRUE, value |-> v, min |-> r[1], max |-> r[2],
                 result |-> wrap(v, r[1], r[2]),
                 again |-> wrap(wrap(v, r[1], r[2]), r[1], r[2])]
  /\ last' = Step("wrap", <<0, 0>>, FALSE, 0, "wrapped")
  /\ UNCHANGED <<shipPosition, mapOffset, velocity, isDragging, isAutoPilot,
                 isHolding, holdStartTime, holdProgress, hasMoved,
                 isDecelerating, autoPilotDirection, lastMoveTime, now,
                 momentumLoop, lastCollision, press, origin, shipRotation, hasReset, wanderingShip, points, shipTimer, scenery, targetRotation, events, autoTicks,
                 momTicks>>

WrapNext == \E v \in WrapValues, r \in WrapRanges : CallWrap(v, r)

WrapSpec == Init /\ [][WrapNext]_vars

(***************************************************************************)
(* The engine from the release of a drag: the momentum loop is running     *)
(* when the next pointer events arrive.                                    *)
(***************************************************************************)
\* The release follows a pointer move of (12, 0) near the barrier.
ReleaseInit == Start(<<1186, 0>>, DragVelocity(<<12, 0>>), TRUE)

ReleaseSpec == ReleaseInit /\ [][Next]_vars

(***************************************************************************)
(* The reset of the ship and the rotation loop, after the release of a     *)
(* drag and with no pointer input.                                         *)
(***************************************************************************)
\* resetShipPosition; mapX, mapY and shipRotation take the value their
\* 0.5 s animations end at.
resetShipPosition ==
  /\ shipPosition' = <<50 * ShipUnit, 50 * ShipUnit>>
  /\ velocity' = <<0, 0>>
  /\ isAutoPilot' = FALSE
  /\ mapOffset' = <<0, 0>>
  /\ shipRotation' = 0
  /\ hasReset' = TRUE
  /\ Render(isDragging, FALSE, <<0, 0>>, FALSE)
  /\ last' = Step("Reset", <<0, 0>>, FALSE, 0, "reset")
  /\ UNCHANGED <<isDragging, isHolding, holdStartTime, holdProgress, hasMoved,
                 autoPilotDirection, lastMoveTime, now, lastCollision, press,
                 origin, events, autoTicks, wrapped, targetRotation, wanderingShip, points, shipTimer, scenery>>

\* One frame of smoothRotation; the loop runs as long as the component is
\* mounted.
smoothRotation ==
  /\ shipRotation' = SmoothedAngle(shipRotation, targetRotation)
  /\ last' = Step("RotationFrame", <<0, 0>>, FALSE, 0, "rotated")
  /\ UNCHANGED <<shipPosition, mapOffset, velocity, isDragging, isAutoPilot,
                 isHolding, holdStartTime, holdProgress, hasMoved,
                 isDecelerating, autoPilotDirection, lastMoveTime, now,
                 momentumLoop, lastCollision, press, origin, events, autoTicks,
                 momTicks, wrapped, targetRotation, hasReset, wanderingShip, points, shipTimer, scenery>>

\* The state after the release of a drag whose last move was delta.
ResetInit ==
  \E m \in SavedMaps, delta \in ReleaseDeltas :
    StartWith(m, DragVelocity(delta), TRUE, FALSE, DragHeading(0, delta))

ResetNext ==
  \/ resetShipPosition
  \/ smoothRotation
  \/ MomentumTick

ResetSpec == ResetInit /\ [][ResetNext]_vars

(***************************************************************************)
(* The engine with the reset among its operations, from a session restored *)
(* near the barrier.                                                       *)
(***************************************************************************)
NavigationInit == Start(<<1186, 0>>, <<0, 0>>, FALSE)

ResetShip == resetShipPosition

NavigationNext == Next \/ ResetShip

NavigationSpec == NavigationInit /\ [][NavigationNext]_vars

(***************************************************************************)
(* The engine from the release of a drag whose hold had activated the      *)
(* autopilot: the autopilot is active when the next press arrives.         *)
(***************************************************************************)
\* The drag moved by (12, 0) after the activation and was then released.
CancelInit ==
  StartWith(<<0, 0>>, DragVelocity(<<12, 0>>), TRUE, TRUE, Heading(<<12, 0>>))

CancelSpec == CancelInit /\ [][Next]_vars

(***************************************************************************)
(* The merchant ship (wanderingShip) and the points of interest.           *)
(* Positions count 1/NpcRes of a world percent, timers 1/NpcRes of a tick, *)
(* angles 1/AngleScale of a radian.                                        *)
(***************************************************************************)
\* Values of 0.7 + 0.6 * sin(time * 0.5) * sin(time * 0.3), in tenths: its
\* least and its greatest value.
SpeedMultipliers == {1, 13}

\* createDefaultPoints: the positions of the 7 default points.
DefaultPoints ==
  [i \in 1 .. DefaultCount |->
     LET angle == ((i - 1) * TwoPi) \div DefaultCount
     IN  <<Max2(10 * NpcRes,
                Min2(90 * NpcRes,
                     50 * NpcRes
                       + DivTZ(Cos(angle) * DefaultRadius * NpcRes, AngleScale))),
           Max2(10 * NpcRes,
                Min2(90 * NpcRes,
                     50 * NpcRes
                       + DivTZ(Sin(angle) * DefaultRadius * NpcRes, AngleScale)))>>]

\* The point lists a load can install: the default layout, and a remote
\* list with one world close to where the merchant ship starts.
PointLists == {DefaultPoints, <<<<52 * NpcRes, 49 * NpcRes>>>>}

\* The square of the distance from (x, y) to the nearest point of pts; with
\* no point the distance is 100.
NearestSquare(x, y, pts) ==
  IF Len(pts) > 0
    THEN LET squares == {(x - pts[i][1]) * (x - pts[i][1])
                           + (y - pts[i][2]) * (y - pts[i][2]) : i \in 1 .. Len(pts)}
         IN  CHOOSE d \in squares : \A e \in squares : d <= e
    ELSE (NoWorldDistance * NpcRes) * (NoWorldDistance * NpcRes)

\* A faulty expiry, one tick late.
PauseExpiresLate(prev) == prev.isPaused /\ prev.pauseTimer - NpcRes <= -NpcRes

\* pauseTimer--; if (pauseTimer <= 0): the pause of prev ends in this tick.
PauseExpires(prev) == prev.isPaused /\ prev.pauseTimer - NpcRes <= 0

\* A faulty interpolation that jumps to the target.
InterpolateSnap(direction, target) == target

\* newDirection += directionDiff * 0.01, with directionDiff brought once
\* into [-Pi, Pi].
Interpolate(direction, target) ==
  LET raw == target - direction
      diff == IF raw > Pi THEN raw - TwoPi
              ELSE IF raw < -Pi THEN raw + TwoPi
              ELSE raw
  IN  direction + DivTZ(diff, 100)

\* A faulty boundary that lets the integrated coordinate through.
FinalCoordinateThrough(out, far, repositioned, previous, integrated) ==
  IF out /\ far THEN repositioned ELSE integrated

\* finalX, finalY: the integrated coordinate inside the domain, the
\* previous one between 35 and 36, the repositioned one beyond 36.
FinalCoordinate(out, far, repositioned, previous, integrated) ==
  IF out THEN (IF far THEN repositioned ELSE previous) ELSE integrated

\* The updater of updateWanderingShip: the next state of the merchant ship
\* from prev, with pts the points the callback sees, speedTenths the speed
\* multiplier and rPause, rTarget, rNext, rBounce the values of Math.random().
updateWanderingShip(prev, pts, speedTenths, rPause, rTarget, rNext, rBounce) ==
  LET center == 50 * NpcRes
      distanceToPlayer ==
        CeilSqrt((prev.x - center) * (prev.x - center)
                   + (prev.y - center) * (prev.y - center))
      nearestSquare == NearestSquare(prev.x, prev.y, pts)
      nearest == CeilSqrt(nearestSquare)
      cooldown0 == Max2(0, prev.pauseCooldown - 1)
      expiring == PauseExpires(prev)
      entering ==
        /\ ~prev.isPaused
        /\ nearestSquare < (PauseDistance * NpcRes) * (PauseDistance * NpcRes)
        /\ ~prev.hasRecentlyPaused
        /\ cooldown0 <= 0
      isPaused == IF prev.isPaused THEN ~expiring ELSE entering
      pauseTimer ==
        IF prev.isPaused THEN prev.pauseTimer - NpcRes
        ELSE IF entering
          THEN PauseMinTicks * NpcRes + Draw(rPause, PauseSpanTicks * NpcRes)
        ELSE prev.pauseTimer
      recently1 == IF expiring THEN TRUE ELSE prev.hasRecentlyPaused
      cooldown == IF expiring THEN PauseCooldownTicks ELSE cooldown0
      recently ==
        IF nearestSquare
             > (PauseResumeDistance * NpcRes) * (PauseResumeDistance * NpcRes)
          THEN FALSE ELSE recently1
      timer1 == prev.directionChangeTimer + NpcRes
      change == timer1 >= prev.nextDirectionChange
      newTarget == IF change THEN Draw(rTarget, TwoPi) ELSE prev.targetDirection
      newDirection == Interpolate(prev.direction, newTarget)
      currentSpeed == (BaseSpeedTenths * NpcRes * speedTenths) \div 100
      newVelocityX == DivTZ(Cos(newDirection) * currentSpeed, AngleScale)
      newVelocityY == DivTZ(Sin(newDirection) * currentSpeed, AngleScale)
      newX == prev.x + newVelocityX
      newY == prev.y + newVelocityY
      centerSquare ==
        (newX - center) * (newX - center) + (newY - center) * (newY - center)
      out == centerSquare > (DomainRadius * NpcRes) * (DomainRadius * NpcRes)
      far == centerSquare > (DomainSlack * NpcRes) * (DomainSlack * NpcRes)
      angleToCenter == Atan2(center - prev.y, center - prev.x)
      bounceDirection ==
        angleToCenter + Pi
          + DivTZ(AngleScale * (8 * rBounce[1] - 4 * rBounce[2]), 10 * rBounce[2])
  IN  IF isPaused
        THEN [prev EXCEPT !.isPaused = TRUE,
                          !.pauseTimer = pauseTimer,
                          !.hasRecentlyPaused = recently1,
                          !.pauseCooldown = cooldown,
                          !.distanceToPlayer = distanceToPlayer,
                          !.nearestWorldDistance = nearest,
                          !.isMoving = FALSE]
        ELSE [prev EXCEPT
                !.x = FinalCoordinate(out, far,
                                      center
                                        + DivTZ(Cos(angleToCenter) * DomainRadius
                                                  * NpcRes, AngleScale),
                                      prev.x, newX),
                !.y = FinalCoordinate(out, far,
                                      center
                                        + DivTZ(Sin(angleToCenter) * DomainRadius
                                                  * NpcRes, AngleScale),
                                      prev.y, newY),
                !.velocityX = newVelocityX,
                !.velocityY = newVelocityY,
                !.direction = IF out THEN bounceDirection ELSE newDirection,
                !.targetDirection = newTarget,
                !.directionChangeTimer = IF change THEN 0 ELSE timer1,
                !.nextDirectionChange =
                  IF change THEN 300 * NpcRes + Draw(rNext, 600 * NpcRes)
                            ELSE prev.nextDirectionChange,
                !.rotation = DivTZ(newDirection * 18000, Pi) + 9000,
                !.isMoving = TRUE,
                !.isPaused = FALSE,
                !.pauseTimer = 0,
                !.hasRecentlyPaused = recently,
                !.pauseCooldown = cooldown,
                !.distanceToPlayer = distanceToPlayer,
                !.nearestWorldDistance = nearest]

\* The variables of the navigation engine, which the merchant ship and the
\* points of interest leave alone.
navigation ==
  <<shipPosition, mapOffset, velocity, isDragging, isAutoPilot, isHolding,
    holdStartTime, holdProgress, hasMoved, isDecelerating, autoPilotDirection,
    lastMoveTime, now, momentumLoop, lastCollision, press, origin, events,
    autoTicks, momTicks, wrapped, shipRotation, targetRotation, hasReset>>

\* The effect that starts the merchant ship at mount: random headings, and
\* setInterval(updateWanderingShip, 16) with a callback that closes over
\* the points of that render.
StartWandering(rDirection, rTarget) ==
  /\ ~shipTimer.started
  /\ wanderingShip' = [wanderingShip EXCEPT
                         !.isMoving = TRUE,
                         !.direction = Draw(rDirection, TwoPi),
                         !.targetDirection = Draw(rTarget, TwoPi)]
  /\ shipTimer' = [started |-> TRUE, points |-> points, ticks |-> 0]
  /\ last' = Step("StartWandering", <<0, 0>>, FALSE, 0, "started")
  /\ UNCHANGED <<navigation, points, scenery>>

\* One tick of the interval.
WanderingTick(speedTenths, rPause, rTarget, rNext, rBounce) ==
  /\ shipTimer.started
  /\ \/ shipTimer.ticks < MaxNpcTicks
     \/ wanderingShip.isPaused /\ shipTimer.ticks < MaxPauseTicks
  /\ wanderingShip' =
       updateWanderingShip(wanderingShip, shipTimer.points, speedTenths,
                           rPause, rTarget, rNext, rBounce)
  /\ shipTimer' = [shipTimer EXCEPT !.ticks = @ + 1]
  /\ last' = Step("WanderingTick", <<0, 0>>, FALSE, 0, "ticked")
  /\ UNCHANGED <<navigation, points, scenery>>

\* loadGalaxyWorlds resolves (after the effects of the mount): the list it
\* found is installed.
LoadWorlds(list) ==
  /\ shipTimer.started
  /\ points = <<>>
  /\ points' = list
  /\ last' = Step("LoadWorlds", <<0, 0>>, FALSE, 0, "loaded")
  /\ UNCHANGED <<navigation, wanderingShip, shipTimer, scenery>>

WanderingInit == Start(<<0, 0>>, <<0, 0>>, FALSE)

WanderingNext ==
  \/ \E rDirection \in Randoms, rTarget \in Randoms :
       StartWandering(rDirection, rTarget)
  \/ \E speedTenths \in SpeedMultipliers, rPause \in Randoms,
        rTarget \in Randoms, rNext \in Randoms, rBounce \in Randoms :
       WanderingTick(speedTenths, rPause, rTarget, rNext, rBounce)
  \/ \E list \in PointLists : LoadWorlds(list)

WanderingSpec == WanderingInit /\ [][WanderingNext]_vars

(***************************************************************************)
(* The pause logic of updateWanderingShip, applied to the states it        *)
(* produces when the callback of the interval sees a point near the ship.  *)
(***************************************************************************)
\* A list with one world, at (52, 49).
NearList == <<<<52 * NpcRes, 49 * NpcRes>>>>

\* The merchant ship in flight at (x, y) with heading direction, which is
\* also its target.
ShipAt(x, y, direction, isPaused, pauseTimer, hasRecentlyPaused, pauseCooldown) ==
  [InitialShip EXCEPT !.x = x, !.y = y, !.direction = direction,
                      !.targetDirection = direction,
                      !.isPaused = isPaused, !.isMoving = ~isPaused,
                      !.pauseTimer = pauseTimer,
                      !.hasRecentlyPaused = hasRecentlyPaused,
                      !.pauseCooldown = pauseCooldown]

\* Positions at distance 4.47, 7.9, 14.9 and 19 from the world of NearList,
\* and the headings towards and away from it of a ship above it.
NearPositions ==
  {<<50 * NpcRes, 45 * NpcRes>>, <<52 * NpcRes, (411 * NpcRes) \div 10>>}

FarPositions ==
  {<<52 * NpcRes, (341 * NpcRes) \div 10>>, <<52 * NpcRes, 30 * NpcRes>>}

Headings == {Pi \div 2, Pi + Pi \div 2}

\* States of the merchant ship around a pause: free to pause; paused with
\* the timer about to expire, and with the longest timer; after a pause,
\* with the cooldown running or over, still marked as recently paused or
\* cleared by an excursion beyond 15.
PauseShips ==
  {ShipAt(p[1], p[2], h, FALSE, 0, FALSE, 0) :
     p \in NearPositions \cup FarPositions, h \in Headings}
  \cup {ShipAt(p[1], p[2], h, TRUE, t, FALSE, 0) :
          p \in NearPositions, h \in {Pi \div 2},
          t \in {(3 * NpcRes) \div 2, 3 * NpcRes,
                  (PauseMinTicks + PauseSpanTicks) * NpcRes - 1}}
  \cup {ShipAt(p[1], p[2], h, FALSE, 0, r, c) :
          p \in NearPositions \cup FarPositions, h \in Headings,
          r \in BOOLEAN, c \in {0, 3, PauseCooldownTicks - 100}}

PauseInit ==
  \E ship \in PauseShips :
    /\ StartNavigation(<<0, 0>>, <<0, 0>>, FALSE, FALSE, 0)
    /\ wanderingShip = ship
    /\ points = NearList
    /\ shipTimer = [started |-> TRUE, points |-> NearList, ticks |-> 0]
    /\ StartStars
    /\ StartEditing(FALSE)
    /\ StartMusic(FALSE)
    /\ StartStore(<<>>, NoCache)

PauseNext ==
  \E speedTenths \in SpeedMultipliers, rPause \in Randoms,
     rTarget \in Randoms, rNext \in Randoms, rBounce \in Randoms :
    WanderingTick(speedTenths, rPause, rTarget, rNext, rBounce)

PauseSpec == PauseInit /\ [][PauseNext]_vars

(***************************************************************************)
(* The merchant ship in flight: near the edge of its domain and near a     *)
(* change of its target heading.  The callback sees no point.              *)
(***************************************************************************)
\* The merchant ship in flight at (x, y), turning from direction to target,
\* with timer ticks since the last change of target and the next change
\* due at next.
ShipTurning(x, y, direction, target, timer, next) ==
  [InitialShip EXCEPT !.x = x, !.y = y, !.direction = direction,
                      !.targetDirection = target,
                      !.directionChangeTimer = timer,
                      !.nextDirectionChange = next]

\* Positions at distance 34.9 from (50, 50), to the right of it, above it
\* and on the diagonal below right of it.
EdgePositions ==
  {<<(849 * NpcRes) \div 10, 50 * NpcRes>>,
   <<50 * NpcRes, (151 * NpcRes) \div 10>>,
   <<(7468 * NpcRes) \div 100, (7468 * NpcRes) \div 100>>}

EdgeHeadings == {0, Pi \div 4, Pi, Pi + Pi \div 2}

\* Ships near the edge, and ships at the start position at a distance from
\* the next change of target.
PatrolShips ==
  {ShipTurning(p[1], p[2], h, h, 10 * NpcRes, 600 * NpcRes) :
     p \in EdgePositions, h \in EdgeHeadings}
  \cup {ShipTurning(50 * NpcRes, 45 * NpcRes, d[1], d[2], t, 300 * NpcRes) :
          d \in {<<0, Pi>>, <<AngleScale \div 10, TwoPi - AngleScale \div 10>>,
                  <<TwoPi + AngleScale \div 4, Pi \div 2>>, <<Pi, Pi>>},
          t \in {10 * NpcRes, 297 * NpcRes, 300 * NpcRes - NpcRes \div 2}}

PatrolInit ==
  \E ship \in PatrolShips, list \in PointLists :
    /\ StartNavigation(<<0, 0>>, <<0, 0>>, FALSE, FALSE, 0)
    /\ wanderingShip = ship
    /\ points = list
    /\ shipTimer = [started |-> TRUE, points |-> <<>>, ticks |-> 0]
    /\ StartStars
    /\ StartEditing(FALSE)
    /\ StartMusic(FALSE)
    /\ StartStore(<<>>, NoCache)

PatrolNext ==
  \E speedTenths \in SpeedMultipliers, rPause \in Randoms,
     rTarget \in Randoms, rNext \in Randoms, rBounce \in Randoms :
    WanderingTick(speedTenths, rPause, rTarget, rNext, rBounce)

PatrolSpec == PatrolInit /\ [][PatrolNext]_vars

(***************************************************************************)
(* The star field of renderStarsCanvas.  A 32-bit word is a pair           *)
(* <<high 16 bits, low 16 bits>>.                                          *)
(***************************************************************************)
Half == 65536

\* ToInt32 of an integer n.
Word(n) == <<(n \div Half) % Half, n % Half>>

RECURSIVE XorBits(_, _, _)
\* a ^ b on the lowest n bits of a and b.
XorBits(a, b, n) ==
  IF n = 0 THEN 0
  ELSE ((a + b) % 2) + 2 * XorBits(a \div 2, b \div 2, n - 1)

\* u ^ v
Xor(u, v) == <<XorBits(u[1], v[1], 16), XorBits(u[2], v[2], 16)>>

\* The low 16 bits of a * b, for 16-bit a and b.
MulLow(a, b) == ((((a \div 256) * b) % 256) * 256 + (a % 256) * b) % Half

\* The high 16 bits of the 32-bit product a * b, for 16-bit a and b.
MulHigh(a, b) ==
  LET upper == (a \div 256) * b
      lower == (a % 256) * b
  IN  (upper \div 256 + (lower + (upper % 256) * 256) \div Half) % Half

\* Math.imul(u, v)
Imul(u, v) ==
  <<(MulHigh(u[2], v[2]) + MulLow(u[1], v[2]) + MulLow(u[2], v[1])) % Half,
    MulLow(u[2], v[2])>>

\* (h << 13) | (h >>> 19)
Rotate13(h) ==
  <<(h[2] \div 8) + (h[1] % 8) * 8192, (h[1] \div 8) + (h[2] % 8) * 8192>>

\* The word of hash for the integer parts x and y of its arguments:
\* (h >>> 0), which hash divides by 2^32.
hash(x, y, layer) ==
  LET h0 == Xor(<<27145, 58983>>, Word(layer))
      h1 == Rotate13(Imul(Xor(h0, Word(x)), <<52382, 11601>>))
      h2 == Rotate13(Imul(Xor(h1, Word(y)), <<7047, 13715>>))
  IN  h2

\* Math.floor(h / 2^32 * n), for n below 2^15.
Scaled(h, n) == (h[1] * n + (h[2] * n) \div Half) \div Half

\* Star positions count 1/StarRes of a pixel; sizes, opacities and the
\* fractions hash returns count thousandths.

\* hash(...) > 0.8
AboveFourFifths(h) == h[1] > 52428 \/ (h[1] = 52428 /\ h[2] >= 52429)

\* Math.floor(a * tenths / 10) of a coordinate a in 1/StarRes of a pixel.
FloorTimes(a, tenths) == (a * tenths) \div (10 * StarRes)

\* density and speed (in percent) of the three calls of generateLayer.
LayerDensity(layer) == IF layer = 1 THEN 8 ELSE IF layer = 2 THEN 4 ELSE 2

LayerSpeed(layer) == IF layer = 1 THEN 8 ELSE IF layer = 2 THEN 25 ELSE 50

\* cameraX, cameraY for the map offset m, in pixels.
Camera(m, layer) ==
  <<DivTZ(-m[1] * LayerSpeed(layer) * StarRes, 100),
    DivTZ(-m[2] * LayerSpeed(layer) * StarRes, 100)>>

\* The cells generateLayer visits: from startX up to endX, from startY up to
\* endY, in steps of 50.
CellVisited(gx, gy, camera) ==
  LET cell == 50 * StarRes
      margin == 200 * StarRes
      startX == ((camera[1] - margin) \div cell) * 50
      endX == -((-(camera[1] + CanvasSize[1] * StarRes + margin)) \div cell) * 50
      startY == ((camera[2] - margin) \div cell) * 50
      endY == -((-(camera[2] + CanvasSize[2] * StarRes + margin)) \div cell) * 50
  IN  /\ gx % 50 = 0 /\ startX <= gx /\ gx < endX
      /\ gy % 50 = 0 /\ startY <= gy /\ gy < endY

\* A faulty size that has the blink of the frame in it.
BaseSizeBlinking(layer, sizeHash, blinkFactor) ==
  ((IF layer = 1 THEN 300 + sizeHash \div 2
    ELSE IF layer = 2 THEN 600 + (sizeHash * 6) \div 10
    ELSE 1000 + sizeHash) * blinkFactor) \div 1000

\* baseSize
BaseSize(layer, sizeHash, blinkFactor) ==
  IF layer = 1 THEN 300 + sizeHash \div 2
  ELSE IF layer = 2 THEN 600 + (sizeHash * 6) \div 10
  ELSE 1000 + sizeHash

\* baseOpacity
BaseOpacity(layer, opacityHash) ==
  IF layer = 1 THEN 100 + (opacityHash * 3) \div 10
  ELSE IF layer = 2 THEN 200 + (opacityHash * 4) \div 10
  ELSE 400 + opacityHash \div 2

\* Star i of the cell (gx, gy) of a layer, as the frame at currentTime
\* (seconds) with the camera at camera draws it: its position in the cell,
\* whether it is on the canvas and, if it is, its base attributes and its
\* animated ones.
Star(gx, gy, layer, i, camera, currentTime) ==
  LET localX == Scaled(hash(gx + i * 137, gy + i * 241, layer + i), 50 * StarRes)
      localY == Scaled(hash(gx + i * 173, gy + i * 197, layer + i + 1000),
                       50 * StarRes)
      worldX == gx * StarRes + localX
      worldY == gy * StarRes + localY
      screenX == worldX - camera[1]
      screenY == worldY - camera[2]
      visible == /\ screenX >= -10 * StarRes
                 /\ screenX <= (CanvasSize[1] + 10) * StarRes
                 /\ screenY >= -10 * StarRes
                 /\ screenY <= (CanvasSize[2] + 10) * StarRes
      sizeHash ==
        Scaled(hash(FloorTimes(worldX, 11), FloorTimes(worldY, 13), layer), 1000)
      opacityHash ==
        Scaled(hash(FloorTimes(worldX, 17), FloorTimes(worldY, 19), layer), 1000)
      colorHash == hash(FloorTimes(worldX, 21), FloorTimes(worldY, 23), layer)
      animationSeed ==
        Scaled(hash(FloorTimes(worldX, 37), FloorTimes(worldY, 41), layer), 1000)
      animationSeed2 ==
        Scaled(hash(FloorTimes(worldX, 53), FloorTimes(worldY, 67), layer), 1000)
      blinkSpeed == 500 + (animationSeed * 15) \div 10
      blinkPhase == (animationSeed * TwoPi) \div 1000
      blinkIntensity == 300 + (animationSeed2 * 4) \div 10
      blinkFactor ==
        1000 + DivTZ(Sin((currentTime * blinkSpeed * AngleScale) \div 1000
                           + blinkPhase) * blinkIntensity, AngleScale)
      floatSpeedX == ((animationSeed - 500) * 8) \div 10
      floatSpeedY == ((animationSeed2 - 500) * 6) \div 10
      floatRange == IF layer = 1 THEN 3 ELSE IF layer = 2 THEN 5 ELSE 8
      floatOffsetX ==
        DivTZ(Sin(DivTZ(currentTime * floatSpeedX * AngleScale, 1000)
                    + (animationSeed * 2 * TwoPi) \div 1000)
                * floatRange * StarRes, 10 * AngleScale)
      floatOffsetY ==
        DivTZ(Cos(DivTZ(currentTime * floatSpeedY * AngleScale, 1000)
                    + (animationSeed2 * 2 * TwoPi) \div 1000)
                * floatRange * StarRes, 10 * AngleScale)
      baseSize == BaseSize(layer, sizeHash, blinkFactor)
      baseOpacity == BaseOpacity(layer, opacityHash)
      isColorful == layer = 3 /\ AboveFourFifths(colorHash)
  IN  IF visible
        THEN [localX |-> localX, localY |-> localY, visible |-> TRUE,
              baseSize |-> baseSize, baseOpacity |-> baseOpacity,
              color |-> IF isColorful THEN 1 + Scaled(colorHash, 6) ELSE 0,
              animationSeed |-> animationSeed,
              animationSeed2 |-> animationSeed2,
              animatedSize |-> (baseSize * blinkFactor) \div 1000,
              animatedOpacity |-> Min2(1000, (baseOpacity * blinkFactor) \div 1000),
              animatedX |-> screenX + floatOffsetX,
              animatedY |-> screenY + floatOffsetY]
        ELSE [localX |-> localX, localY |-> localY, visible |-> FALSE,
              baseSize |-> 0, baseOpacity |-> 0, color |-> 0,
              animationSeed |-> 0, animationSeed2 |-> 0,
              animatedSize |-> 0, animatedOpacity |-> 0,
              animatedX |-> 0, animatedY |-> 0]

\* The stars generateLayer draws for the cell (gx, gy) of a layer.
CellStars(gx, gy, layer, camera, currentTime) ==
  [i \in 1 .. Scaled(hash(gx, gy, layer), LayerDensity(layer)) |->
     Star(gx, gy, layer, i - 1, camera, currentTime)]

\* One frame of renderStarsCanvas, followed at the cell (gx, gy) of a layer:
\* the map offset is m (pixels), Date.now() * 0.001 is currentTime.
generateLayer(m, currentTime, layer, gx, gy) ==
  LET camera == Camera(m, layer)
      key == <<gx, gy, layer>>
      stars == CellStars(gx, gy, layer, camera, currentTime)
  IN  /\ starField.frames < MaxFrames
      /\ CellVisited(gx, gy, camera)
      /\ starField' =
           [cell |-> key, stars |-> stars,
            seen |-> IF key \in DOMAIN starField.seen
                       THEN starField.seen
                       ELSE (key :> [stars |-> stars, map |-> m,
                                     time |-> currentTime]) @@ starField.seen,
            frames |-> starField.frames + 1]
      /\ last' = Step("generateLayer", <<gx, gy>>, FALSE, 0, "drawn")
      /\ UNCHANGED <<navigation, wanderingShip, points, shipTimer,
                     shootingStars, store, editing, music>>

\* Map offsets and times of the frames, and the cells followed.
StarMaps == {<<0, 0>>, <<-1000, 400>>}

StarTimes == {0, 3}

StarCells == {<<50, 100>>, <<400, 600>>}

StarNext ==
  \E m \in StarMaps, currentTime \in StarTimes, layer \in 1 .. 3,
     c \in StarCells :
    generateLayer(m, currentTime, layer, c[1], c[2])

StarInit == Start(<<0, 0>>, <<0, 0>>, FALSE)

StarSpec == StarInit /\ [][StarNext]_vars

(***************************************************************************)
(* The shooting stars.  Positions count 1/StarRes of a pixel, a life       *)
(* counts 1/StarRes of an update.                                          *)
(***************************************************************************)
\* Date.now() at the update after n updates, in ms since the page opened
\* (which was long after the epoch lastShootingStarTime starts at).
FrameClock(n) == 10000 + n * FrameMs

\* createShootingStar, for the values <<angle, speed, life, side, place>> of
\* its calls of Math.random() (the draws for size, tail and colour do not
\* act on the pool).
createShootingStar(draws, currentTime) ==
  LET angle == Draw(draws[1], TwoPi)
      speed == 2 * StarRes + Draw(draws[2], 4 * StarRes)
      life == 60 * StarRes + Draw(draws[3], 120 * StarRes)
      margin == 100 * StarRes
      side == Draw(draws[4], 4)
      alongX == Draw(draws[5], CanvasSize[1] * StarRes + 2 * margin) - margin
      alongY == Draw(draws[5], CanvasSize[2] * StarRes + 2 * margin) - margin
  IN  [x |-> IF side = 0 \/ side = 2 THEN alongX
             ELSE IF side = 1 THEN CanvasSize[1] * StarRes + margin
             ELSE -margin,
       y |-> IF side = 0 THEN -margin
             ELSE IF side = 2 THEN CanvasSize[2] * StarRes + margin
             ELSE alongY,
       vx |-> DivTZ(Cos(angle) * speed, AngleScale),
       vy |-> DivTZ(Sin(angle) * speed, AngleScale),
       life |-> life, maxLife |-> life, angle |-> angle,
       startTime |-> currentTime, updates |-> 0]

\* The body of the filter callback: the star after its step.
Moved(star, currentTime) ==
  LET sineWave ==
        DivTZ(Sin(((currentTime - star.startTime) * 3 * AngleScale) \div 1000) * 3,
              10)
  IN  [star EXCEPT
         !.x = @ + star.vx
                 + DivTZ(sineWave * Cos(star.angle + Pi \div 2) * StarRes,
                         AngleScale * AngleScale),
         !.y = @ + star.vy
                 + DivTZ(sineWave * Sin(star.angle + Pi \div 2) * StarRes,
                         AngleScale * AngleScale),
         !.life = @ - StarRes,
         !.updates = @ + 1]

\* A faulty filter that forgets the life.
SurvivesOnCanvas(star) ==
  /\ star.x > -200 * StarRes
  /\ star.x < (CanvasSize[1] + 200) * StarRes
  /\ star.y > -200 * StarRes
  /\ star.y < (CanvasSize[2] + 200) * StarRes

\* The result of the filter callback.
Survives(star) ==
  /\ star.life > 0
  /\ star.x > -200 * StarRes
  /\ star.x < (CanvasSize[1] + 200) * StarRes
  /\ star.y > -200 * StarRes
  /\ star.y < (CanvasSize[2] + 200) * StarRes

\* updateShootingStars(Date.now()): rGate is the Math.random() of the test
\* for a new star, draws are those of createShootingStar.
updateShootingStars(rGate, draws) ==
  LET currentTime == FrameClock(shootingStars.updates)
      create ==
        currentTime - shootingStars.lastShootingStarTime > 2000 + Draw(rGate, 4000)
      pushed == IF create
                  THEN Append(shootingStars.pool,
                              createShootingStar(draws, currentTime))
                  ELSE shootingStars.pool
      moved == [i \in 1 .. Len(pushed) |-> Moved(pushed[i], currentTime)]
      Gone(star) == ~Survives(star)
  IN  /\ shootingStars.updates < MaxStarUpdates
      /\ shootingStars' =
           [pool |-> SelectSeq(moved, Survives),
            removed |-> SelectSeq(moved, Gone),
            lastShootingStarTime |->
              IF create THEN currentTime ELSE shootingStars.lastShootingStarTime,
            updates |-> shootingStars.updates + 1]
      /\ last' = Step("updateShootingStars", <<0, 0>>, FALSE, 0, "updated")
      /\ UNCHANGED <<navigation, wanderingShip, points, shipTimer, starField, store,
                     editing, music>>

\* The draws of createShootingStar: from the top down at the least speed
\* with the longest life; from the top upwards at full speed; from the
\* right edge to the right; from the left edge to the right with the
\* shortest life.
ShootingDraws ==
  {<<<<1, 4>>, <<0, 1>>, <<999, 1000>>, <<0, 1>>, <<1, 2>>>>,
   <<<<3, 4>>, <<999, 1000>>, <<999, 1000>>, <<0, 1>>, <<1, 2>>>>,
   <<<<0, 1>>, <<999, 1000>>, <<0, 1>>, <<1, 4>>, <<1, 2>>>>,
   <<<<0, 1>>, <<0, 1>>, <<0, 1>>, <<3, 4>>, <<1, 2>>>>}

ShootingNext ==
  \E rGate \in Randoms, draws \in ShootingDraws :
    updateShootingStars(rGate, draws)

ShootingInit == Start(<<0, 0>>, <<0, 0>>, FALSE)

ShootingSpec == ShootingInit /\ [][ShootingNext]_vars

(***************************************************************************)
(* Loading and saving the points of interest.                              *)
(***************************************************************************)
\* The worlds of a remote store that has some.
RemoteList == <<<<30 * NpcRes, 30 * NpcRes>>, <<52 * NpcRes, 49 * NpcRes>>>>

\* What localStorage can hold under "xenopets-galaxy-points": nothing, text
\* that JSON.parse rejects, JSON that is not an array, an empty array, an
\* array of points.
Caches ==
  {NoCache,
   [kind |-> "unparsable", list |-> <<>>],
   [kind |-> "notList", list |-> <<>>],
   [kind |-> "list", list |-> <<>>],
   [kind |-> "list", list |-> <<<<40 * NpcRes, 60 * NpcRes>>>>]}

\* The fallback of loadGalaxyWorlds: the list of the cache, or the default
\* points when the item is missing or JSON.parse or .map throws.
FromCache(cache) ==
  IF cache.kind = "list" THEN cache.list ELSE DefaultPoints

\* loadGalaxyWorlds, whole: answered says whether getGalaxyWorlds resolved
\* (with the worlds of the remote store) or rejected.
loadGalaxyWorlds(answered) ==
  LET useRemote == answered /\ Len(store.remote) > 0
  IN  /\ ~store.loaded
      /\ points' = IF useRemote THEN store.remote ELSE FromCache(store.cache)
      /\ store' = [store EXCEPT
                     !.isLoadingWorlds = FALSE,
                     !.loaded = TRUE,
                     !.stringIds = useRemote,
                     !.errors = IF answered THEN @ ELSE @ + 1]
      /\ last' = Step("loadGalaxyWorlds", <<0, 0>>, FALSE, 0,
                      IF answered THEN "answered" ELSE "rejected")
      /\ UNCHANGED <<navigation, wanderingShip, shipTimer, starField,
                     shootingStars, editing, music>>

\* A faulty save that leaves the cache alone when the remote update fails.
CacheAfterSaveOnSuccess(outcome, cache, newPoints) ==
  IF outcome = "updated" THEN [kind |-> "list", list |-> newPoints] ELSE cache

\* localStorage.setItem("xenopets-galaxy-points", JSON.stringify(newPoints)),
\* after the try block.
CacheAfterSave(outcome, cache, newPoints) ==
  [kind |-> "list", list |-> newPoints]

\* The remote store after the updates of savePoints: all written, none
\* written, or the first one written before another one failed.
RemoteAfterSave(outcome, remote, newPoints) ==
  IF outcome = "updated" THEN newPoints
  ELSE IF outcome = "partly" THEN [remote EXCEPT ![1] = newPoints[1]]
  ELSE remote

\* savePoints(newPoints), whole; outcome is that of Promise.all over the
\* remote updates, which are made for points with a string id.
savePoints(newPoints, outcome) ==
  LET remoteCalls == store.stringIds /\ Len(newPoints) > 0
      failed == remoteCalls /\ outcome # "updated"
  IN  /\ store.saves < MaxSaves
      /\ store' = [store EXCEPT
                     !.remote = IF remoteCalls
                                  THEN RemoteAfterSave(outcome, @, newPoints)
                                  ELSE @,
                     !.cache = CacheAfterSave(IF failed THEN outcome ELSE "updated",
                                              @, newPoints),
                     !.errors = IF failed THEN @ + 1 ELSE @,
                     !.given = newPoints,
                     !.saves = @ + 1]
      /\ points' = newPoints
      /\ last' = Step("savePoints", <<0, 0>>, FALSE, 0,
                      IF failed THEN "logged" ELSE "saved")
      /\ UNCHANGED <<navigation, wanderingShip, shipTimer, starField,
                     shootingStars>>

\* The list after a drag of point i to position p.
MovePoint(list, i, p) == [list EXCEPT ![i] = p]

\* The end of a drag of a point by the administrator: the list with the
\* point at its new place is saved.
SaveDrag ==
  \E i \in 1 .. Len(points),
     p \in {<<5 * NpcRes, 95 * NpcRes>>, <<52 * NpcRes, 49 * NpcRes>>},
     outcome \in {"updated", "rejected", "partly"} :
    savePoints(MovePoint(points, i, p), outcome) /\ UNCHANGED <<editing, music>>

\* The page is opened again: the component starts over, the remote store
\* and the local cache are what the last session left.
Remount ==
  /\ store.loaded
  /\ store.sessions < MaxSessions
  /\ store' = [store EXCEPT !.isLoadingWorlds = TRUE, !.loaded = FALSE,
                            !.stringIds = FALSE, !.given = <<>>,
                            !.sessions = @ + 1]
  /\ points' = <<>>
  /\ last' = Step("Remount", <<0, 0>>, FALSE, 0, "")
  /\ UNCHANGED <<navigation, wanderingShip, shipTimer, starField, shootingStars,
                 editing, music>>

LoadInit ==
  \E remote \in {<<>>, RemoteList}, cache \in Caches :
    /\ StartNavigation(<<0, 0>>, <<0, 0>>, FALSE, FALSE, 0)
    /\ wanderingShip = InitialShip
    /\ points = <<>>
    /\ shipTimer = [started |-> FALSE, points |-> <<>>, ticks |-> 0]
    /\ StartStars
    /\ StartEditing(FALSE)
    /\ StartMusic(FALSE)
    /\ StartStore(remote, cache)

LoadNext ==
  \/ \E answered \in BOOLEAN : loadGalaxyWorlds(answered)
  \/ SaveDrag
  \/ Remount

LoadSpec == LoadInit /\ [][LoadNext]_vars

(***************************************************************************)
(* The point editor: an administrator drags a point of interest or, with   *)
(* Ctrl held, resizes it.  The handlers bound to the elements see the      *)
(* state of the last render; the handlers registered on the document see   *)
(* the state at the last run of the effect that registered them.           *)
(***************************************************************************)
MaxEdits == 3

\* Math.max(5, Math.min(95, ...)) on both coordinates of a dragged point.
ClampPosition(p) ==
  <<Max2(5 * NpcRes, Min2(95 * NpcRes, p[1])),
    Max2(5 * NpcRes, Min2(95 * NpcRes, p[2]))>>

\* point.scale || 1, in hundredths.
ScaleOf(scales, i) == IF i \in DOMAIN scales THEN scales[i] ELSE 100

\* The scale of a mouse resize: 100 px of movement change the scale by the
\* start scale; the result is kept within [0.3, 3].
MouseScale(start, deltaY) ==
  Max2(30, Min2(300, DivTZ(start * (100 + deltaY), 100)))

\* The scale of a touch resize: factor 1 + deltaY * 0.002, kept in [0.5, 3].
TouchScale(start, deltaY) ==
  Max2(50, Min2(300, DivTZ(start * (1000 + 2 * deltaY), 1000)))

\* A press that edits for every user.
PointPressedByAnyone(admin, ctrl, i) ==
  IF ctrl THEN [draggingPoint |-> NULL, resizingPoint |-> i]
  ELSE [draggingPoint |-> i, resizingPoint |-> NULL]

\* What a press on point i starts: nothing unless the user is the
\* administrator, a resize with Ctrl held, a drag otherwise (NULL stands for
\* "left as it is").
PointPressed(admin, ctrl, i) ==
  IF ~admin THEN [draggingPoint |-> NULL, resizingPoint |-> NULL]
  ELSE IF ctrl THEN [draggingPoint |-> NULL, resizingPoint |-> i]
  ELSE [draggingPoint |-> i, resizingPoint |-> NULL]

\* One more pointer event handled by the editor.
Counted(e) == [e EXCEPT !.events = @ + 1]

\* setPoints(newPoints): positions and scales are replaced together, the
\* component will render again and the listener effect will run again.
WithPoints(e, newScales) == [e EXCEPT !.scales = newScales, !.stale = TRUE]

EditFrame ==
  UNCHANGED <<navigation, wanderingShip, shipTimer, starField, shootingStars, music>>

\* handlePointMouseDown (ctrl says whether Ctrl is held) and
\* handlePointTouchStart (ctrl is FALSE), whole; the point is one of the
\* last render.
PointPress(op, i, ctrl) ==
  LET started == PointPressed(editing.isAdmin, ctrl, i)
      e1 == IF started.resizingPoint # NULL
              THEN [editing EXCEPT
                      !.resizingPoint = i,
                      !.resizeStartScale = ScaleOf(editing.rendered.scales, i)]
              ELSE editing
      e2 == IF started.draggingPoint # NULL
              THEN [e1 EXCEPT !.draggingPoint = i, !.stale = TRUE]
              ELSE e1
  IN  /\ editing.events < MaxEdits
      /\ i \in 1 .. Len(editing.rendered.points)
      /\ editing' = Counted(e2)
      /\ last' = Step(op, <<0, 0>>, FALSE, 0, IF ctrl THEN "ctrl" ELSE "")
      /\ UNCHANGED <<points, store>>
      /\ EditFrame

handlePointMouseDown(i, ctrl) == PointPress("handlePointMouseDown", i, ctrl)

handlePointTouchStart(i) == PointPress("handlePointTouchStart", i, FALSE)

\* handlePointMouseMove, whole: the pointer is at p (already without the
\* drag offset), in hundredths of a percent of the container.
handlePointMouseMove(p) ==
  LET seen == editing.rendered
      edits == editing.isAdmin /\ seen.draggingPoint # NULL
  IN  /\ editing.events < MaxEdits
      /\ points' = IF edits
                     THEN MovePoint(seen.points, seen.draggingPoint, ClampPosition(p))
                     ELSE points
      /\ editing' = Counted(IF edits THEN WithPoints(editing, seen.scales)
                            ELSE editing)
      /\ last' = Step("handlePointMouseMove", <<0, 0>>, FALSE, 0,
                      IF edits THEN "moved" ELSE "")
      /\ UNCHANGED store
      /\ EditFrame

\* The branches of handleGlobalMouseMove and handleGlobalTouchMove that
\* edit points, whole; both return before the map is dragged.  The handlers
\* exist only while the effect has them registered.
GlobalMove(op, p, newScale) ==
  LET seen == editing.listeners
      resizes == editing.isAdmin /\ seen.resizingPoint # NULL
      drags == editing.isAdmin /\ seen.draggingPoint # NULL
  IN  /\ editing.events < MaxEdits
      /\ seen.attached
      /\ resizes \/ drags
      /\ points' = IF resizes THEN seen.points
                   ELSE MovePoint(seen.points, seen.draggingPoint, ClampPosition(p))
      /\ editing' =
           Counted(WithPoints(editing,
                     IF resizes
                       THEN (seen.resizingPoint :> newScale) @@ seen.scales
                       ELSE seen.scales))
      /\ last' = Step(op, <<0, 0>>, FALSE, 0, IF resizes THEN "resized" ELSE "moved")
      /\ UNCHANGED store
      /\ EditFrame

handleGlobalMouseMove(p, deltaY) ==
  GlobalMove("handleGlobalMouseMove", p,
             MouseScale(editing.listeners.resizeStartScale, deltaY))

handleGlobalTouchMove(p, deltaY) ==
  GlobalMove("handleGlobalTouchMove", p,
             TouchScale(editing.listeners.resizeStartScale, deltaY))

\* await savePoints(list) of a release handler, with what the handler sets
\* after it: e is the editor as the handler leaves it.
SaveEdited(op, list, scales, e, outcome, event) ==
  LET remoteCalls == store.stringIds /\ Len(list) > 0
      failed == remoteCalls /\ outcome # "updated"
  IN  /\ store.saves < MaxSaves
      /\ store' = [store EXCEPT
                     !.remote = IF remoteCalls
                                  THEN RemoteAfterSave(outcome, @, list)
                                  ELSE @,
                     !.cache = CacheAfterSave(IF failed THEN outcome ELSE "updated",
                                              @, list),
                     !.errors = IF failed THEN @ + 1 ELSE @,
                     !.given = list,
                     !.saves = @ + 1]
      /\ points' = list
      /\ editing' = Counted([WithPoints(e, scales) EXCEPT
                               !.given = scales, !.saveCalls = @ + 1])
      /\ last' = Step(op, <<0, 0>>, FALSE, 0, event)
      /\ EditFrame

\* handlePointMouseUp, whole; it is bound to the mouseup and to the
\* mouseleave of the container (event says which one arrived).
handlePointMouseUp(outcome, event) ==
  LET seen == editing.rendered
  IN  /\ editing.events < MaxEdits
      /\ IF editing.isAdmin /\ seen.draggingPoint # NULL
           THEN SaveEdited("handlePointMouseUp", seen.points, seen.scales,
                           [editing EXCEPT !.draggingPoint = NULL],
                           outcome, event)
           ELSE /\ editing' = Counted(editing)
                /\ last' = Step("handlePointMouseUp", <<0, 0>>, FALSE, 0, "")
                /\ UNCHANGED <<points, store>>
                /\ EditFrame

\* The branches of handleGlobalMouseUp and handleGlobalTouchEnd that end a
\* resize or a drag of a point, whole.
GlobalRelease(op, outcome, event) ==
  LET seen == editing.listeners
      resizes == editing.isAdmin /\ seen.resizingPoint # NULL
      drags == editing.isAdmin /\ seen.draggingPoint # NULL
  IN  /\ editing.events < MaxEdits
      /\ seen.attached
      /\ resizes \/ drags
      /\ SaveEdited(op, seen.points, seen.scales,
                    IF resizes
                      THEN [editing EXCEPT !.resizingPoint = NULL,
                                           !.resizeStartScale = 100]
                      ELSE [editing EXCEPT !.draggingPoint = NULL],
                    outcome, event)

handleGlobalMouseUp(outcome) == GlobalRelease("handleGlobalMouseUp", outcome, "mouseup")

handleGlobalTouchEnd(outcome) == GlobalRelease("handleGlobalTouchEnd", outcome, "touchend")

\* The component renders again and, when a dependency of the listener
\* effect has changed (isDragging, draggingPoint, dragOffset, points; not
\* resizingPoint), the effect registers new document listeners, which exist
\* while isDragging || draggingPoint !== null.
Commit ==
  LET rerun == editing.stale \/ editing.listeners.isDragging # isDragging
  IN  /\ \/ rerun
         \/ editing.rendered.draggingPoint # editing.draggingPoint
      /\ editing' =
           [editing EXCEPT
              !.rendered = [points |-> points, scales |-> editing.scales,
                            draggingPoint |-> editing.draggingPoint],
              !.listeners =
                 IF rerun
                   THEN [attached |-> isDragging \/ editing.draggingPoint # NULL,
                         isDragging |-> isDragging,
                         points |-> points, scales |-> editing.scales,
                         draggingPoint |-> editing.draggingPoint,
                         resizingPoint |-> editing.resizingPoint,
                         resizeStartScale |-> editing.resizeStartScale]
                   ELSE @,
              !.stale = FALSE]
      /\ last' = Step("Commit", <<0, 0>>, FALSE, 0, "")
      /\ UNCHANGED <<points, store>>
      /\ EditFrame

PointerTargets == {<<20 * NpcRes, 70 * NpcRes>>, <<-3 * NpcRes, 120 * NpcRes>>}

ResizeDeltas == {-100, 50, 400}

PointMouseDown ==
  \E i \in 1 .. Len(points), ctrl \in BOOLEAN : handlePointMouseDown(i, ctrl)

PointTouchStart == \E i \in 1 .. Len(points) : handlePointTouchStart(i)

PointMouseMove == \E p \in PointerTargets : handlePointMouseMove(p)

GlobalMouseMove ==
  \E p \in PointerTargets, deltaY \in ResizeDeltas : handleGlobalMouseMove(p, deltaY)

GlobalTouchMove ==
  \E p \in PointerTargets, deltaY \in ResizeDeltas : handleGlobalTouchMove(p, deltaY)

SaveOutcomes == {"updated", "rejected"}

PointMouseUp == \E outcome \in SaveOutcomes : handlePointMouseUp(outcome, "mouseup")

MouseLeave == \E outcome \in SaveOutcomes : handlePointMouseUp(outcome, "mouseleave")

GlobalMouseUp == \E outcome \in SaveOutcomes : handleGlobalMouseUp(outcome)

GlobalTouchEnd == \E outcome \in SaveOutcomes : handleGlobalTouchEnd(outcome)

\* A press on the map, which handleMouseDown and handleTouchStart ignore
\* while a point is dragged.
MapPress ==
  /\ editing.rendered.draggingPoint = NULL
  /\ \/ handleMouseDown(<<0, 0, 0>>)
     \/ handleTouchStart(<<0, 0, 0>>, TRUE)

\* A drag of the map by 12 px.
MapDrag == handleMouseMove(<<12, 0>>)

\* The worlds are loaded and rendered; the user is or is not the
\* administrator.
EditInit ==
  \E admin \in BOOLEAN :
    /\ StartNavigation(<<0, 0>>, <<0, 0>>, FALSE, FALSE, 0)
    /\ wanderingShip = InitialShip
    /\ points = RemoteList
    /\ shipTimer = [started |-> FALSE, points |-> <<>>, ticks |-> 0]
    /\ StartStars
    /\ StartMusic(FALSE)
    /\ store = [remote |-> RemoteList, cache |-> NoCache,
                isLoadingWorlds |-> FALSE, loaded |-> TRUE, stringIds |-> TRUE,
                errors |-> 0, given |-> <<>>, saves |-> 0, sessions |-> 1]
    /\ editing = [isAdmin |-> admin, draggingPoint |-> NULL,
                  resizingPoint |-> NULL, resizeStartScale |-> 100,
                  scales |-> <<>>,
                  rendered |-> [points |-> RemoteList, scales |-> <<>>,
                                draggingPoint |-> NULL],
                  listeners |-> [attached |-> FALSE, isDragging |-> FALSE,
                                 points |-> RemoteList, scales |-> <<>>,
                                 draggingPoint |-> NULL, resizingPoint |-> NULL,
                                 resizeStartScale |-> 100],
                  stale |-> FALSE, given |-> <<>>, saveCalls |-> 0, events |-> 0]

EditNext ==
  \/ PointMouseDown
  \/ PointTouchStart
  \/ PointMouseMove
  \/ GlobalMouseMove
  \/ GlobalTouchMove
  \/ PointMouseUp
  \/ MouseLeave
  \/ GlobalMouseUp
  \/ GlobalTouchEnd
  \/ MapPress
  \/ MapDrag
  \/ MouseUp
  \/ Commit

EditSpec == EditInit /\ [][EditNext]_vars

(***************************************************************************)
(* Drag steps with an invalid pointer delta.  NaN stands for the number    *)
(* NaN: every sum, product, Math.max and Math.min with it is NaN, every    *)
(* comparison with it is false.                                            *)
(***************************************************************************)
NaN == -2000000000

IsNaN(x) == x = NaN

AnyNaN(p) == IsNaN(p[1]) \/ IsNaN(p[2])

\* velX, velY of a drag step: Math.max(-1.5, Math.min(1.5, NaN)) is NaN.
DragVelocityAny(deltaPx) ==
  IF IsNaN(deltaPx) THEN NaN ELSE DragVelocityAxis(deltaPx)

\* proposedX, proposedY: both loops of wrap are skipped for NaN, which is
\* returned as it is.
ProposedAny(s, deltaPx, max) ==
  IF IsNaN(s) \/ IsNaN(deltaPx) THEN NaN ELSE wrap(s - deltaPx * Res, 0, max)

\* proposedMapX, proposedMapY.
ProposedMapAny(m, s, proposed) ==
  IF IsNaN(m) \/ IsNaN(s) \/ IsNaN(proposed) THEN NaN ELSE m + (s - proposed)

\* newMapX, newMapY: neither comparison with the wrap threshold holds for NaN.
DragMapAny(m, deltaPx) ==
  IF IsNaN(m) \/ IsNaN(deltaPx) THEN NaN ELSE WrapMapAxis(m + deltaPx * Res)

\* handleMouseMove, whole, for a pointer event whose coordinates, or a state
\* whose numbers, may be NaN.  With a NaN on either axis distanceFromCenter
\* is NaN and checkBarrierCollision reports no collision; the square root
\* of the rotation test is NaN for a NaN delta and the test fails.
handleMouseMoveAny(delta) ==
  IF ~AnyNaN(delta) /\ ~AnyNaN(shipPosition) /\ ~AnyNaN(mapOffset)
    THEN handleMouseMove(delta)
    ELSE
      LET proposed == <<ProposedAny(shipPosition[1], delta[1], ShipWidth),
                        ProposedAny(shipPosition[2], delta[2], ShipHeight)>>
          proposedMap ==
            <<ProposedMapAny(mapOffset[1], shipPosition[1], proposed[1]),
              ProposedMapAny(mapOffset[2], shipPosition[2], proposed[2])>>
          turned == ~AnyNaN(delta) /\ MovedBeyondThreshold(delta)
      IN  /\ isDragging
          /\ events < MaxEvents
          /\ events' = events + 1
          /\ isHolding' = FALSE
          /\ holdProgress' = IF isHolding THEN 0 ELSE holdProgress
          /\ holdStartTime' = IF isHolding THEN NULL ELSE holdStartTime
          /\ velocity' = IF now - lastMoveTime > 0
                           THEN <<DragVelocityAny(delta[1]), DragVelocityAny(delta[2])>>
                           ELSE velocity
          /\ shipPosition' = proposed
          /\ mapOffset' = <<DragMapAny(mapOffset[1], delta[1]),
                            DragMapAny(mapOffset[2], delta[2])>>
          /\ hasMoved' = (hasMoved \/ turned)
          /\ targetRotation' = IF turned THEN DragHeading(targetRotation, delta)
                               ELSE targetRotation
          /\ lastMoveTime' = now
          /\ lastCollision' = Check(proposedMap,
                                    [isColliding |-> FALSE, collisionPoint |-> NULL])
          /\ last' = Step("MouseMove", delta, FALSE, 0, "moved")
          /\ press' = [press EXCEPT !.moved = TRUE]
          /\ UNCHANGED <<isDragging, isAutoPilot, autoPilotDirection, now, origin,
                         wrapped, shipRotation, hasReset, wanderingShip, points,
                         shipTimer, scenery, autoTicks, momentumLoop,
                         isDecelerating, momTicks>>

\* Pointer deltas (pixels) of events with a NaN coordinate, of a jump far
\* larger than any screen, and of ordinary moves.
AnyDeltas == {<<NaN, 0>>, <<NaN, NaN>>, <<16000, 0>>, <<0, -20000>>, <<12, 0>>}

MouseMoveAny == \E delta \in AnyDeltas : handleMouseMoveAny(delta)

DeltaNext ==
  \/ MouseDown
  \/ MouseMoveAny
  \/ AdvanceTime

DeltaSpec == Init /\ [][DeltaNext]_vars

(***************************************************************************)
(* Navigation from a map offset inside the barrier, 4 px from the          *)
(* collision band.                                                         *)
(***************************************************************************)
BarrierSpec == NavigationInit /\ [][Next]_vars

(***************************************************************************)
(* The merchant ship on the edge of its domain.                            *)
(***************************************************************************)
\* Ships at 35 from (50, 50), heading outwards and 0.4 rad off that.
EdgeShips ==
  {ShipTurning(85 * NpcRes, 50 * NpcRes, h, 0, 10 * NpcRes, 600 * NpcRes) :
     h \in {0, (4 * AngleScale) \div 10, TwoPi - (4 * AngleScale) \div 10}}

EdgeInit ==
  \E ship \in EdgeShips :
    /\ StartNavigation(<<0, 0>>, <<0, 0>>, FALSE, FALSE, 0)
    /\ wanderingShip = ship
    /\ points = DefaultPoints
    /\ shipTimer = [started |-> TRUE, points |-> <<>>, ticks |-> 0]
    /\ StartStars
    /\ StartEditing(FALSE)
    /\ StartMusic(FALSE)
    /\ StartStore(<<>>, NoCache)

EdgeSpec == EdgeInit /\ [][PatrolNext]_vars

(***************************************************************************)
(* The background music service.  A call of an async method runs up to its *)
(* first await; it goes on when the promise it awaits is settled: that of  *)
(* audio.play() by the browser, that of fadeOut by the last step of the    *)
(* fade interval.  The service has one fadeInterval for all its fades.     *)
(***************************************************************************)
FadeSteps == 20

MaxCalls == 3

MaxAudios == 3

\* tracks.length: five files, or the three synthetic tracks.
TrackCount(m) == IF m.isUsingSynthetic THEN 3 ELSE 5

NoCall == [call |-> NULL, op |-> "", how |-> ""]

NewCall(op) == [op |-> op, pc |-> "running", audio |-> NULL, index |-> 0]

\* No call has returned or thrown in this step.
Quiet(m) == [m EXCEPT !.settled = NoCall]

\* Call c returns, or throws.
Settled(m, c, how) ==
  [m EXCEPT !.calls[c].pc = IF how = "returned" THEN "done" ELSE "failed",
            !.settled = [call |-> c, op |-> m.calls[c].op, how |-> how]]

\* clearFadeInterval()
clearFadeInterval(m) == [m EXCEPT !.fade = NoFade]

\* fadeIn(audio): the interval of any other fade is cleared first.
fadeIn(m, audio) ==
  [m EXCEPT !.fade = [kind |-> "in", waiter |-> NULL, left |-> FadeSteps,
                      from |-> NULL, to |-> audio]]

\* fadeOut(audio), awaited by call c: its promise is resolved by the last
\* step of the interval it sets, and by nothing else.
fadeOut(m, audio, c) ==
  [m EXCEPT !.fade = [kind |-> "out", waiter |-> c, left |-> FadeSteps,
                      from |-> audio, to |-> NULL]]

\* crossfade(currentAudio, nextAudio): returns once the interval is set.
crossfade(m, currentAudio, nextAudio) ==
  [m EXCEPT !.fade = [kind |-> "cross", waiter |-> NULL, left |-> FadeSteps,
                      from |-> currentAudio, to |-> nextAudio]]

\* playSyntheticTrack(index), with an audio context.
playSyntheticTrack(m, index) ==
  [m EXCEPT !.oscillators = TRUE, !.currentTrackIndex = index]

\* stopSyntheticTrack()
stopSyntheticTrack(m) == [m EXCEPT !.oscillators = FALSE]

\* playTrack(index) up to its await of audio.play(): call c is left
\* "starting" with a new audio element, or playTrack has returned.
playTrack(m, c, index) ==
  IF index < 0 \/ index >= TrackCount(m) THEN m
  ELSE IF m.isUsingSynthetic THEN playSyntheticTrack(m, index)
  ELSE [m EXCEPT !.audios = @ + 1,
                 !.calls[c] = [@ EXCEPT !.pc = "starting",
                                        !.audio = m.audios + 1,
                                        !.index = index]]

\* play() up to its first await.
play(m, c) ==
  IF m.isPlaying /\ ~m.isPaused THEN Settled(m, c, "returned")
  ELSE IF m.isPaused /\ m.currentTrack # NULL /\ ~m.isUsingSynthetic
    THEN [m EXCEPT !.isPaused = FALSE,
                   !.calls[c] = [@ EXCEPT !.pc = "resuming",
                                          !.audio = m.currentTrack]]
  ELSE LET m1 == playTrack(m, c, m.currentTrackIndex)
       IN  IF m1.calls[c].pc = "starting" THEN m1
           ELSE Settled([m1 EXCEPT !.isPlaying = TRUE], c, "returned")

\* pause() up to its await of fadeOut.
pause(m, c) ==
  IF ~m.isPlaying \/ m.isPaused THEN Settled(m, c, "returned")
  ELSE LET m1 == [m EXCEPT !.isPaused = TRUE]
       IN  IF m.isUsingSynthetic
             THEN Settled(stopSyntheticTrack(m1), c, "returned")
           ELSE IF m.currentTrack # NULL
             THEN [fadeOut(m1, m.currentTrack, c) EXCEPT !.calls[c].pc = "fading"]
           ELSE Settled(m1, c, "returned")

\* stop() up to its await of fadeOut.
stop(m, c) ==
  LET m1 == [m EXCEPT !.isPlaying = FALSE, !.isPaused = FALSE]
  IN  IF m.isUsingSynthetic
        THEN Settled(clearFadeInterval(stopSyntheticTrack(m1)), c, "returned")
      ELSE IF m.currentTrack # NULL
        THEN [fadeOut(m1, m.currentTrack, c) EXCEPT !.calls[c].pc = "fading"]
      ELSE Settled(clearFadeInterval(m1), c, "returned")

\* nextTrack() and previousTrack() up to the await of audio.play().
ChangeTrack(m, c, index) ==
  IF ~m.isPlaying THEN Settled(m, c, "returned")
  ELSE LET m1 == playTrack(m, c, index)
       IN  IF m1.calls[c].pc = "starting" THEN m1
           ELSE Settled(m1, c, "returned")

nextTrack(m, c) ==
  ChangeTrack(m, c, (m.currentTrackIndex + 1) % TrackCount(m))

previousTrack(m, c) ==
  ChangeTrack(m, c, IF m.currentTrackIndex = 0 THEN TrackCount(m) - 1
                    ELSE m.currentTrackIndex - 1)

\* this.nextTrack() in the catch block of playTrack, which is not awaited.
RetryNext(m) ==
  nextTrack([m EXCEPT !.calls = Append(@, NewCall("nextTrack"))],
            Len(m.calls) + 1)

\* The rest of playTrack and of its caller c once audio.play() is settled.
playTrackSettles(m, c, outcome) ==
  LET audio == m.calls[c].audio
      faded == IF m.currentTrack # NULL /\ m.isPlaying
                 THEN crossfade(m, m.currentTrack, audio)
                 ELSE fadeIn(m, audio)
      m1 == IF outcome = "ok"
              THEN [faded EXCEPT !.playing = @ \cup {audio},
                                 !.currentTrack = audio,
                                 !.currentTrackIndex = m.calls[c].index]
              ELSE RetryNext(m)
      m2 == IF m.calls[c].op = "play" THEN [m1 EXCEPT !.isPlaying = TRUE] ELSE m1
  IN  Settled(m2, c, "returned")

\* The rest of play() once the currentTrack.play() of a resume is settled:
\* a rejection whose message has "user didn't interact" is swallowed, any
\* other one is thrown again, and so is the TypeError of fadeIn(null).
resumeSettles(m, c, outcome) ==
  IF outcome = "ok"
    THEN IF m.currentTrack = NULL
           THEN Settled(clearFadeInterval([m EXCEPT !.playing = @ \cup {m.calls[c].audio}]),
                        c, "threw")
           ELSE Settled([fadeIn(m, m.currentTrack) EXCEPT
                           !.playing = @ \cup {m.calls[c].audio},
                           !.isPlaying = TRUE], c, "returned")
  ELSE IF outcome = "blocked" THEN Settled(m, c, "returned")
  ELSE Settled(m, c, "threw")

\* The rest of pause() after its fade-out: this.currentTrack.pause().
pauseResumes(m, c) ==
  IF m.currentTrack = NULL THEN Settled(m, c, "threw")
  ELSE Settled([m EXCEPT !.playing = @ \ {m.currentTrack}], c, "returned")

\* The rest of stop() after its fade-out.
stopResumes(m, c) ==
  IF m.currentTrack = NULL THEN Settled(m, c, "threw")
  ELSE Settled(clearFadeInterval([m EXCEPT !.playing = @ \ {m.currentTrack},
                                           !.currentTrack = NULL]),
               c, "returned")

MusicFrame ==
  UNCHANGED <<navigation, wanderingShip, points, shipTimer, starField,
              shootingStars, store, editing>>

\* Some call has neither returned nor thrown.
Busy(m) ==
  \E i \in 1 .. Len(m.calls) : m.calls[i].pc \notin {"done", "failed"}

\* A method of the service is called.
Invoke(op) ==
  LET c == Len(music.calls) + 1
      m == [music EXCEPT !.calls = Append(@, NewCall(op)),
                         !.overlapped = @ \/ Busy(music),
                         !.settled = NoCall]
  IN  /\ Len(music.calls) < MaxCalls
      /\ music' = CASE op = "play" -> play(m, c)
                    [] op = "pause" -> pause(m, c)
                    [] op = "stop" -> stop(m, c)
                    [] op = "nextTrack" -> nextTrack(m, c)
                    [] op = "previousTrack" -> previousTrack(m, c)
      /\ last' = Step(op, <<0, 0>>, FALSE, 0, "called")
      /\ MusicFrame

\* The browser settles the audio.play() that call c awaits.
AudioSettles(c, outcome) ==
  /\ c \in 1 .. Len(music.calls)
  /\ music.calls[c].pc \in {"starting", "resuming"}
  /\ music.audios < MaxAudios \/ outcome = "ok" \/ music.calls[c].pc = "resuming"
  /\ music' = IF music.calls[c].pc = "starting"
                THEN playTrackSettles(Quiet(music), c, outcome)
                ELSE resumeSettles(Quiet(music), c, outcome)
  /\ last' = Step(music.calls[c].op, <<0, 0>>, FALSE, 0, outcome)
  /\ MusicFrame

\* A step of the fade interval; the last one clears the interval and, for a
\* crossfade, pauses the old audio, for a fade-out resolves its promise.
FadeTick ==
  LET f == music.fade
      m == clearFadeInterval(Quiet(music))
  IN  /\ f.kind # "none"
      /\ music' =
           IF f.left > 1 THEN [Quiet(music) EXCEPT !.fade.left = @ - 1]
           ELSE IF f.kind = "in" THEN m
           ELSE IF f.kind = "cross" THEN [m EXCEPT !.playing = @ \ {f.from}]
           ELSE IF m.calls[f.waiter].op = "pause" THEN pauseResumes(m, f.waiter)
           ELSE stopResumes(m, f.waiter)
      /\ last' = Step("fade", <<0, 0>>, FALSE, 0, f.kind)
      /\ MusicFrame

MusicOps == {"play", "pause", "stop", "nextTrack", "previousTrack"}

MusicCall == \E op \in MusicOps : Invoke(op)

PlaySettles ==
  \E c \in 1 .. MaxCalls + MaxAudios, outcome \in {"ok", "blocked", "error"} :
    AudioSettles(c, outcome)

MusicInit ==
  \E synthetic \in BOOLEAN :
    /\ StartNavigation(<<0, 0>>, <<0, 0>>, FALSE, FALSE, 0)
    /\ wanderingShip = InitialShip
    /\ points = <<>>
    /\ shipTimer = [started |-> FALSE, points |-> <<>>, ticks |-> 0]
    /\ StartStars
    /\ StartEditing(FALSE)
    /\ StartMusic(synthetic)
    /\ StartStore(<<>>, NoCache)

MusicNext ==
  \/ MusicCall
  \/ PlaySettles
  \/ FadeTick

MusicSpec == MusicInit /\ [][MusicNext]_vars

\* The interval timer keeps firing and the browser settles every
\* audio.play() promise.
MusicLive == MusicSpec /\ WF_vars(FadeTick) /\ WF_vars(PlaySettles)

(***************************************************************************)
(* Claims.                                                                 *)
(***************************************************************************)
\* x * x + y * y > r * r, with the squares kept in range.
BeyondRadius(p, r) == Abs(p[1]) > r \/ Abs(p[2]) > r \/ p[1] * p[1] + p[2] * p[2] > r * r

\* C1: for every proposed map offset at distance d from the origin,
\* checkBarrierCollision reports a collision exactly when 1190 < d <= 1220
\* (stated on the squares: 1190^2 < x^2 + y^2 <= 1220^2).
C1_CollisionBand ==
  lastCollision.done =>
    (lastCollision.isColliding <=>
       (/\ BeyondRadius(lastCollision.proposed, BandInner * Res)
        /\ ~BeyondRadius(lastCollision.proposed, BandOuter * Res)))

\* A collision reported off the axes at distance exactly 1220.
C1_Witness ==
  /\ lastCollision.done
  /\ lastCollision.isColliding
  /\ lastCollision.proposed = <<732 * Res, 976 * Res>>

WrapPeriod == GCD(ShipWidth, WrapThreshold * Res * 2)

\* C3: the map offset and the ship position change by reciprocal deltas
\* under the scale factor 12: on each axis mapOffset + 12 * shipPosition
\* keeps its initial value modulo the wrap periods.
C3_Reciprocal ==
  \A i \in {1, 2} :
    ((mapOffset[i] + shipPosition[i]) - (origin.map[i] + origin.ship[i]))
      % WrapPeriod = 0

\* C4 as stated: a pointer movement of at most 1 px during the hold leaves
\* the hold timer armed (so the hold still activates the autopilot at
\* 2500 ms).
C4_SmallMoveKeepsHold ==
  [][(last'.op = "MouseMove" /\ ~MovedBeyondThreshold(last'.delta) /\ isHolding)
       => isHolding']_vars

\* C4 as amended: the autopilot becomes active exactly in the hold frame
\* that finds the press held for at least 2500 ms with no pointer-move event
\* since the press; every pointer-move event of the drag (of any size) and
\* every release clears the hold timer, its progress and its start, and
\* nothing arms it again before the next press.
C4_HoldActivation ==
  /\ [][(isAutoPilot' /\ ~isAutoPilot) =>
          /\ last'.op = "HoldTick"
          /\ isHolding
          /\ ~press.moved
          /\ holdStartTime = press.start
          /\ now - press.start >= HoldMs]_vars
  /\ [][(last'.op = "HoldTick" /\ now - holdStartTime >= HoldMs)
          => (isAutoPilot' /\ last'.note = "activated")]_vars
  /\ [][(last'.op = "HoldTick" /\ now - holdStartTime < HoldMs)
          => (isAutoPilot' = isAutoPilot /\ isHolding')]_vars
  /\ [][last'.op \in {"MouseMove", "MouseUp"} =>
          (~isHolding' /\ holdProgress' = 0 /\ holdStartTime' = NULL)]_vars
  /\ [][(isHolding' /\ ~isHolding) => last'.note = "began"]_vars
  /\ [](isHolding => (isDragging /\ ~press.moved))

\* An autopilot activated by a hold of 2500 ms without a move event.
C4_Witness ==
  /\ isAutoPilot
  /\ last.op = "HoldTick"
  /\ last.note = "activated"
  /\ ~press.moved
  /\ now - press.start >= HoldMs

\* C5: the dragging flag and the autopilot flag are never both true.
C5_Exclusive == ~(isDragging /\ isAutoPilot)

\* C6: a press (mouse or touch) received while the autopilot is active
\* deactivates the autopilot and does nothing else: no drag session starts,
\* no hold timer is armed, and ship position, map offset and velocity stay.
C6_ClickCancels ==
  [][(last'.op \in {"MouseDown", "TouchStart"} /\ isAutoPilot) =>
       /\ ~isAutoPilot'
       /\ ~isHolding'
       /\ isDragging' = isDragging
       /\ UNCHANGED <<shipPosition, mapOffset, velocity, isHolding,
                      holdStartTime, holdProgress, hasMoved,
                      autoPilotDirection, press>>]_vars

\* A press that cancelled the autopilot, after the pointer was released.
C6_Witness ==
  /\ last.op \in {"MouseDown", "TouchStart"}
  /\ last.note = "cancelled"
  /\ ~isAutoPilot
  /\ ~isDragging
  /\ ~isHolding

\* C7: the hold frame that finds elapsed >= 2500 ms sets autopilot = true,
\* holding = false, hold progress = 0 and hold start = none in one step, and
\* signals the activation exactly once for that hold.
C7_HoldCompletes ==
  /\ [][(last'.op = "HoldTick" /\ now - holdStartTime >= HoldMs) =>
          /\ isAutoPilot'
          /\ ~isHolding'
          /\ holdProgress' = 0
          /\ holdStartTime' = NULL
          /\ press'.activations = 1]_vars
  /\ [][press'.activations > press.activations =>
          (last'.op = "HoldTick" /\ now - holdStartTime >= HoldMs)]_vars
  /\ [](press.activations <= 1)

\* The state a completed hold leaves.
C7_Witness ==
  /\ last.op = "HoldTick"
  /\ last.note = "activated"
  /\ isAutoPilot
  /\ ~isHolding
  /\ holdProgress = 0
  /\ holdStartTime = NULL
  /\ press.activations = 1

\* C8: a drag step whose proposed map offset is colliding zeroes the
\* velocity, stops deceleration, signals a collision, does not advance the
\* map offset by the pointer delta, and applies the repulsion to the map
\* offset and to the ship position.
C8_DragCollision ==
  [][(last'.op = "MouseMove" /\ last'.collided) =>
       /\ velocity' = <<0, 0>>
       /\ ~isDecelerating'
       /\ last'.collisionSignals = 1
       /\ mapOffset' = RepelMap(mapOffset, lastCollision'.collisionPoint)
       /\ shipPosition' = RepelShip(shipPosition, lastCollision'.collisionPoint)]_vars

\* C9: a non-colliding momentum tick derives its step as a drag step does
\* for the delta d the map offset moves by: the ship moves by -d / 12
\* (wrapped), and the map offset tested against the collision model is the
\* offset that is committed.
C9_MomentumLikeDrag ==
  [][(last'.op = "MomentumTick" /\ last'.note = "moved") =>
       /\ shipPosition' =
            ProposedShip(shipPosition,
                         <<mapOffset'[1] - mapOffset[1], mapOffset'[2] - mapOffset[2]>>)
       /\ lastCollision'.proposed = mapOffset']_vars

\* C10: the momentum loop terminates: a loop started with velocity
\* components of magnitude at most 1.5 runs at most MaxDecayTicks frames
\* (momTicks counts every frame of the loop), and once it has ended (both
\* components below 0.001, or a collision) the velocity is (0, 0) and the
\* decelerating flag is cleared.
C10_MomentumTerminates ==
  /\ Abs(velocity[1]) <= MaxVel
  /\ Abs(velocity[2]) <= MaxVel
  /\ momTicks <= MaxDecayTicks
  /\ (~momentumLoop => (velocity = <<0, 0>> /\ ~isDecelerating))

\* A loop that decayed from the maximal velocity to a stop without a
\* collision.
C10_Witness ==
  /\ ~momentumLoop
  /\ last.op = "MomentumTick"
  /\ last.note = "stopped"
  /\ momTicks > 1000
  /\ velocity = <<0, 0>>
  /\ ~isDecelerating

\* C11: the momentum loop commits nothing in a tick where dragging or
\* autopilot is active: no momentum frame is scheduled while either flag is
\* set, and every momentum frame runs with both flags clear, so the drag
\* handler and the autopilot frame (which require their flag) never write
\* the ship position or the map offset in a tick of the momentum loop.
C11_SingleWriter ==
  /\ [](momentumLoop => (~isDragging /\ ~isAutoPilot))
  /\ [][last'.op = "MomentumTick" => (~isDragging /\ ~isAutoPilot)]_vars
  /\ [][last'.op = "MouseMove" => (isDragging /\ ~momentumLoop)]_vars
  /\ [][last'.op = "AutoPilotTick" => (isAutoPilot /\ ~momentumLoop)]_vars

\* A press that arrived while the momentum loop was running and stopped it.
C11_Witness ==
  /\ last.op \in {"MouseDown", "TouchStart"}
  /\ last.note = "began"
  /\ isDragging
  /\ ~momentumLoop
  /\ velocity # <<0, 0>>

\* The displacement of the map offset in a step.
MapMove == <<mapOffset'[1] - mapOffset[1], mapOffset'[2] - mapOffset[2]>>

\* C12 as stated: every non-colliding autopilot tick moves the map offset
\* by 1.8 units (a displacement of length 1.8, up to the resolution).
C12_UnitStep ==
  [][(last'.op = "AutoPilotTick" /\ ~last'.collided) =>
       BeyondRadius(MapMove, (SpeedTenths * Res) \div 10 - 2)]_vars

\* C12 as amended: a non-colliding autopilot tick moves the map offset by
\* 1.8 times the stored direction (on each axis, up to the resolution) and
\* the ship by the same amount / 12 the opposite way, wrapped; the stored
\* direction is a unit vector once a pointer position off the canvas centre
\* has been recorded and (0, 0) before, and then the tick moves nothing.  A
\* colliding tick deactivates the autopilot, applies the repulsion to map
\* and ship, signals one collision and commits no autopilot movement; ticks
\* run only while the autopilot is active, and only a completed hold
\* activates it again.
C12_AutoPilotTick ==
  /\ [][(last'.op = "AutoPilotTick" /\ ~last'.collided) =>
          /\ isAutoPilot'
          /\ \A i \in {1, 2} :
               /\ Abs(MapMove[i] * 10 * autoPilotDirection[3]
                        - autoPilotDirection[i] * SpeedTenths * Res)
                    < 10 * autoPilotDirection[3]
               /\ shipPosition'[i] >= 0
               /\ shipPosition'[i] < ShipWidth
               /\ (shipPosition'[i] - shipPosition[i] + MapMove[i])
                    % ShipWidth = 0
          /\ (autoPilotDirection[1] * autoPilotDirection[1]
                + autoPilotDirection[2] * autoPilotDirection[2]
                = autoPilotDirection[3] * autoPilotDirection[3]
              => BeyondRadius(MapMove, (SpeedTenths * Res) \div 10 - 2))]_vars
  /\ [][(last'.op = "AutoPilotTick" /\ last'.collided) =>
          /\ ~isAutoPilot'
          /\ last'.collisionSignals = 1
          /\ velocity' = <<0, 0>>
          /\ mapOffset' = RepelMap(mapOffset, lastCollision'.collisionPoint)
          /\ shipPosition' = RepelShip(shipPosition, lastCollision'.collisionPoint)
          /\ lastCollision'.proposed # mapOffset']_vars
  /\ [][last'.op = "AutoPilotTick" => isAutoPilot]_vars
  /\ [][(isAutoPilot' /\ ~isAutoPilot) => last'.note = "activated"]_vars

\* An autopilot that moved toward the barrier and was stopped by it.
C12_Witness ==
  /\ last.op = "AutoPilotTick"
  /\ last.note = "blocked"
  /\ ~isAutoPilot
  /\ autoTicks >= 3
  /\ autoPilotDirection[3] > 0

\* C13: for max > min, wrap(v, min, max) returns a value r with
\* min <= r < max that differs from v by an integer multiple of max - min,
\* and wrapping the result again returns it unchanged.
C13_Wrap ==
  (wrapped.done /\ wrapped.max > wrapped.min) =>
    /\ wrapped.min <= wrapped.result
    /\ wrapped.result < wrapped.max
    /\ (wrapped.result - wrapped.value) % (wrapped.max - wrapped.min) = 0
    /\ wrapped.again = wrapped.result

\* The upper end of the world wrapped to its lower end.
C13_Witness ==
  /\ wrapped.done
  /\ wrapped.value = ShipWidth
  /\ wrapped.min = 0
  /\ wrapped.max = ShipWidth
  /\ wrapped.result = 0

\* q lies on the circle of radius 1200 around <<0, 0>> (up to the
\* resolution) at the angle of p.
OnBarrierAtAngleOf(q, p) ==
  /\ ~BeyondRadius(q, BarrierRadius * Res)
  /\ BeyondRadius(q, BarrierRadius * Res - 3)
  /\ Abs(p[1] * q[2] - p[2] * q[1]) <= 2 * BandOuter * Res
  /\ p[1] * q[1] >= 0
  /\ p[2] * q[2] >= 0

\* C14 as stated: the collision point of a reported collision lies on the
\* circle of radius 1200 centred at the map origin (0, 0), at the angle of
\* the proposed offset.
C14_PointAroundOrigin ==
  (lastCollision.done /\ lastCollision.isColliding) =>
    OnBarrierAtAngleOf(lastCollision.collisionPoint, lastCollision.proposed)

\* C14 as amended: the collision point of a reported collision is given in
\* screen coordinates: it lies on the circle of radius 1200 centred at the
\* canvas centre (canvas.width / 2, canvas.height / 2), at the angle of the
\* proposed offset, also for a proposed offset at distance exactly 1200.
C14_PointAroundCanvasCenter ==
  (lastCollision.done /\ lastCollision.isColliding) =>
    OnBarrierAtAngleOf(<<lastCollision.collisionPoint[1] - CanvasCenter[1],
                         lastCollision.collisionPoint[2] - CanvasCenter[2]>>,
                       lastCollision.proposed)

\* A collision reported for a proposed offset at distance exactly 1200.
C14_Witness ==
  /\ lastCollision.done
  /\ lastCollision.isColliding
  /\ lastCollision.proposed = <<0, BarrierRadius * Res>>
  /\ lastCollision.collisionPoint =
       <<CanvasCenter[1], CanvasCenter[2] + BarrierRadius * Res>>

\* C15: starting from a ship position in [0, 100] x [0, 100], both
\* coordinates of the ship position remain in [0, 100] after any sequence
\* of operations.
C15_ShipWithin100 ==
  (\A i \in {1, 2} : origin.ship[i] >= 0 /\ origin.ship[i] <= 100 * ShipUnit)
    => (\A i \in {1, 2} :
          shipPosition[i] >= 0 /\ shipPosition[i] <= 100 * ShipUnit)

\* C16: the map offset wraps at +-5000: after every step that commits a
\* map offset (drag, momentum tick, autopilot tick), each coordinate of the
\* map offset lies in [-5000, 5000].
C16_MapWithinWrap ==
  \A i \in {1, 2} : Abs(mapOffset[i]) <= WrapThreshold * Res

\* C19: after resetShip the ship position is (50, 50), the velocity is
\* (0, 0), the autopilot is off, and the map offset and the ship rotation
\* are 0 once the animation has completed and stay 0 while no input arrives.
C19_ResetState ==
  hasReset =>
    /\ shipPosition = <<50 * ShipUnit, 50 * ShipUnit>>
    /\ velocity = <<0, 0>>
    /\ ~isAutoPilot
    /\ mapOffset = <<0, 0>>
    /\ shipRotation = 0

\* clamp(0.08 * delta, -1.5, 1.5) on one axis.
ClampedVelocity(deltaPx) ==
  LET raw == deltaPx * ((VelocityPercent * VelScale) \div 100)
  IN  IF raw > MaxVel THEN MaxVel ELSE IF raw < -MaxVel THEN -MaxVel ELSE raw

\* C17 as stated: every drag step (that does not collide) sets the velocity
\* to clamp(0.08 * delta, -1.5, 1.5) on each axis.
C17_DragSetsVelocity ==
  [][(last'.op = "MouseMove" /\ ~last'.collided) =>
       \A i \in {1, 2} : velocity'[i] = ClampedVelocity(last'.delta[i])]_vars

\* C17 as amended: each velocity component lies in [-1.5, 1.5] in every
\* reachable state; a drag step that does not collide sets the velocity to
\* clamp(0.08 * delta, -1.5, 1.5) on each axis when its time stamp is later
\* than that of the previous move event, and leaves the velocity unchanged
\* otherwise; a drag step that collides sets it to (0, 0); and no other
\* step (momentum, collision, release, reset) increases the magnitude of a
\* velocity component.
C17_VelocityBound ==
  /\ [](\A i \in {1, 2} : velocity[i] >= -MaxVel /\ velocity[i] <= MaxVel)
  /\ [][(last'.op = "MouseMove" /\ ~last'.collided /\ now > lastMoveTime) =>
          \A i \in {1, 2} : velocity'[i] = ClampedVelocity(last'.delta[i])]_vars
  /\ [][(last'.op = "MouseMove" /\ ~last'.collided /\ now <= lastMoveTime) =>
          velocity' = velocity]_vars
  /\ [][(last'.op = "MouseMove" /\ last'.collided) => velocity' = <<0, 0>>]_vars
  /\ [][last'.op # "MouseMove" =>
          \A i \in {1, 2} : Abs(velocity'[i]) <= Abs(velocity[i])]_vars
  /\ [][last'.op \in {"MouseUp", "Reset"} =>
          velocity' \in {velocity, <<0, 0>>}]_vars

\* A drag step that clamped the velocity on both axes.
C17_Witness ==
  /\ last.op = "MouseMove"
  /\ ~last.collided
  /\ last.delta = <<45, -20>>
  /\ velocity = <<MaxVel, -MaxVel>>

\* C18: a pointer release always clears the dragging flag, the holding
\* flag, the hold progress and the hold start time; a release that follows
\* its press with no pointer movement in between (a stationary press) also
\* sets the velocity to (0, 0) and clears the decelerating flag, so that no
\* momentum remains.
C18_Release ==
  /\ [][last'.op = "MouseUp" =>
          /\ ~isDragging'
          /\ ~isHolding'
          /\ holdProgress' = 0
          /\ holdStartTime' = NULL]_vars
  /\ [][(last'.op = "MouseUp" /\ last.op \in {"MouseDown", "TouchStart"}
           /\ last.note \in {"began", "cancelled"}) =>
          /\ velocity' = <<0, 0>>
          /\ ~isDecelerating'
          /\ ~momentumLoop']_vars

\* C20: a tick that starts with the merchant ship not paused, at a distance
\* below 8 from the nearest point of interest, with recentlyPaused false
\* and the pause cooldown at 0, enters the paused state with a pause timer
\* in [180, 420) and leaves position and heading unchanged; the ship enters
\* the paused state under no other condition.
C20_PauseEntry ==
  /\ [][(/\ last'.op = "WanderingTick"
          /\ ~wanderingShip.isPaused
          /\ NearestSquare(wanderingShip.x, wanderingShip.y, points)
               < (PauseDistance * NpcRes) * (PauseDistance * NpcRes)
          /\ ~wanderingShip.hasRecentlyPaused
          /\ wanderingShip.pauseCooldown = 0) =>
          /\ wanderingShip'.isPaused
          /\ wanderingShip'.pauseTimer >= PauseMinTicks * NpcRes
          /\ wanderingShip'.pauseTimer
               < (PauseMinTicks + PauseSpanTicks) * NpcRes
          /\ wanderingShip'.x = wanderingShip.x
          /\ wanderingShip'.y = wanderingShip.y
          /\ wanderingShip'.direction = wanderingShip.direction]_vars
  /\ [][(wanderingShip'.isPaused /\ ~wanderingShip.isPaused) =>
          /\ last'.op = "WanderingTick"
          /\ NearestSquare(wanderingShip.x, wanderingShip.y, points)
               < (PauseDistance * NpcRes) * (PauseDistance * NpcRes)
          /\ ~wanderingShip.hasRecentlyPaused
          /\ wanderingShip.pauseCooldown = 0]_vars

\* The distance the callback of the interval measures is below d.
SeesWorldWithin(d) ==
  NearestSquare(wanderingShip.x, wanderingShip.y, shipTimer.points)
    < (d * NpcRes) * (d * NpcRes)

C22_PauseRunsOut ==
  /\ [](wanderingShip.isPaused =>
          /\ wanderingShip.pauseTimer > 0
          /\ wanderingShip.pauseTimer < (PauseMinTicks + PauseSpanTicks) * NpcRes)
  /\ [][(last'.op = "WanderingTick" /\ wanderingShip.isPaused) =>
          IF wanderingShip.pauseTimer - NpcRes > 0
            THEN /\ wanderingShip'.isPaused
                 /\ wanderingShip'.pauseTimer = wanderingShip.pauseTimer - NpcRes
                 /\ wanderingShip'.x = wanderingShip.x
                 /\ wanderingShip'.y = wanderingShip.y
            ELSE /\ ~wanderingShip'.isPaused
                 /\ wanderingShip'.hasRecentlyPaused
                 /\ wanderingShip'.pauseCooldown = PauseCooldownTicks]_vars

\* The pause with the longest timer has ended, in its 420th tick.
C22_Witness ==
  /\ last.op = "WanderingTick"
  /\ shipTimer.ticks = PauseMinTicks + PauseSpanTicks
  /\ ~wanderingShip.isPaused
  /\ wanderingShip.hasRecentlyPaused
  /\ wanderingShip.pauseCooldown = PauseCooldownTicks

\* C23: in every tick the nearest distance the merchant ship reports (and
\* compares with 8) is the least distance from its position to a point of
\* the list loaded at that time, whenever that list is not empty, also when
\* the list was loaded after the interval was started.
C23_NearestOfLoadedPoints ==
  [][(last'.op = "WanderingTick" /\ Len(points) > 0) =>
      wanderingShip'.nearestWorldDistance
        = CeilSqrt(NearestSquare(wanderingShip.x, wanderingShip.y, points))]_vars

\* The square of the distance from (x, y) to (50, 50).
CenterSquare(x, y) ==
  (x - 50 * NpcRes) * (x - 50 * NpcRes) + (y - 50 * NpcRes) * (y - 50 * NpcRes)

\* The position the tick that leads to the primed state integrated.
IntegratedSquare ==
  CenterSquare(wanderingShip.x + wanderingShip'.velocityX,
               wanderingShip.y + wanderingShip'.velocityY)

\* The tick that leads to the primed state found the integrated position
\* farther than 35 and at most 36 from (50, 50).
ReachesEdge ==
  /\ last'.op = "WanderingTick"
  /\ ~wanderingShip'.isPaused
  /\ IntegratedSquare > (DomainRadius * NpcRes) * (DomainRadius * NpcRes)
  /\ IntegratedSquare <= (DomainSlack * NpcRes) * (DomainSlack * NpcRes)

\* The least distance between the angles a and b, on the circle.
AngularDistance(a, b) ==
  LET d == (a - b) % TwoPi
  IN  Min2(d, TwoPi - d)

\* C24: an unpaused tick whose integrated position is farther than 35 and at
\* most 36 from (50, 50) keeps the previous position and stores a heading
\* that points to (50, 50), up to a perturbation of at most 0.4 rad.
C24_TurnsBack ==
  [][ReachesEdge =>
      /\ wanderingShip'.x = wanderingShip.x
      /\ wanderingShip'.y = wanderingShip.y
      /\ AngularDistance(wanderingShip'.direction,
                         Atan2(50 * NpcRes - wanderingShip.y,
                               50 * NpcRes - wanderingShip.x))
           <= (4 * AngleScale) \div 10 + AngleScale \div 100]_vars

\* The longest step of a tick: baseSpeed times the greatest speed
\* multiplier.
MaxStep == (BaseSpeedTenths * NpcRes * 13) \div 100

\* C25: the merchant ship is always within 35 of (50, 50), and a tick moves
\* it by at most the greatest speed of a tick.
C25_StaysInDomain ==
  /\ [](CenterSquare(wanderingShip.x, wanderingShip.y)
          <= (DomainRadius * NpcRes) * (DomainRadius * NpcRes))
  /\ [][(wanderingShip'.x - wanderingShip.x) * (wanderingShip'.x - wanderingShip.x)
          + (wanderingShip'.y - wanderingShip.y) * (wanderingShip'.y - wanderingShip.y)
          <= MaxStep * MaxStep]_vars

\* A tick has found the integrated position beyond 35 and has kept the ship
\* where it was, at the distance from (50, 50) the tick measured.
C25_Witness ==
  /\ last.op = "WanderingTick"
  /\ ~wanderingShip.isPaused
  /\ CenterSquare(wanderingShip.x + wanderingShip.velocityX,
                  wanderingShip.y + wanderingShip.velocityY)
       > (DomainRadius * NpcRes) * (DomainRadius * NpcRes)
  /\ CeilSqrt(CenterSquare(wanderingShip.x, wanderingShip.y))
       = wanderingShip.distanceToPlayer
  /\ wanderingShip.distanceToPlayer > (DomainRadius - 1) * NpcRes

\* The tick that leads to the primed state moved the merchant ship or
\* held it at the edge.
UnpausedTick == last'.op = "WanderingTick" /\ ~wanderingShip'.isPaused

\* The size of the change of the stored heading in a step.
HeadingChange ==
  IF wanderingShip'.direction >= wanderingShip.direction
    THEN wanderingShip'.direction - wanderingShip.direction
    ELSE wanderingShip.direction - wanderingShip'.direction

BaseOf(star) ==
  [localX |-> star.localX, localY |-> star.localY,
   baseSize |-> star.baseSize, baseOpacity |-> star.baseOpacity,
   color |-> star.color, animationSeed |-> star.animationSeed,
   animationSeed2 |-> star.animationSeed2]

\* Two drawings of one star agree: on its position in the cell, and on its
\* base attributes when both drawings had it on the canvas.
SameStar(a, b) ==
  /\ a.localX = b.localX
  /\ a.localY = b.localY
  /\ (a.visible /\ b.visible) => BaseOf(a) = BaseOf(b)

\* C27: every frame that draws a cell of a layer finds the same number of
\* stars and the same base attributes of each star as the first frame that
\* drew it, whatever the time and the camera of the two frames.
C27_SameBaseStars ==
  [][(last'.op = "generateLayer" /\ starField'.cell \in DOMAIN starField.seen) =>
      LET first == starField.seen[starField'.cell].stars
      IN  /\ Len(starField'.stars) = Len(first)
          /\ \A i \in 1 .. Len(first) : SameStar(starField'.stars[i], first[i])]_vars

\* A cell has been drawn again, at another time and with another camera,
\* with a star that both frames had on the canvas.
C27_Witness ==
  /\ last.op = "generateLayer"
  /\ starField.cell \in DOMAIN starField.seen
  /\ LET first == starField.seen[starField.cell]
     IN  /\ first.time # 0
         /\ first.map # <<0, 0>>
         /\ \E i \in 1 .. Len(first.stars) :
              /\ first.stars[i].visible
              /\ starField.stars[i].visible
              /\ first.stars[i].animatedSize # starField.stars[i].animatedSize
              /\ first.stars[i].animatedX # starField.stars[i].animatedX

\* C28: after every update every star left in the pool has life > 0 and
\* lies strictly inside the canvas widened by 200 on each side, and no star
\* is in the pool after 180 updates of its own.
C28_PoolIsLive ==
  \A i \in 1 .. Len(shootingStars.pool) :
    LET star == shootingStars.pool[i]
    IN  /\ star.life > 0
        /\ star.x > -200 * StarRes
        /\ star.x < (CanvasSize[1] + 200) * StarRes
        /\ star.y > -200 * StarRes
        /\ star.y < (CanvasSize[2] + 200) * StarRes
        /\ star.updates < 180
        /\ star.life = star.maxLife - star.updates * StarRes

\* An update has dropped a star in its 180th update, inside the widened
\* canvas, because its life had run out.
C28_Witness ==
  /\ last.op = "updateShootingStars"
  /\ \E i \in 1 .. Len(shootingStars.removed) :
       /\ shootingStars.removed[i].updates = 180
       /\ shootingStars.removed[i].life <= 0
       /\ SurvivesOnCanvas(shootingStars.removed[i])

\* C29: savePoints writes the list it is given to the local cache and
\* installs it as the current list, whether the remote update succeeds or
\* fails; a failure is logged and savePoints returns.
C29_SaveAlwaysCaches ==
  [][last'.op = "savePoints" =>
      /\ store'.cache = [kind |-> "list", list |-> store'.given]
      /\ points' = store'.given
      /\ last'.note \in {"saved", "logged"}
      /\ (last'.note = "logged") <=> (store'.errors = store.errors + 1)]_vars

\* A save whose remote update failed has its list in the cache and as the
\* current list, which differs from what the remote store holds.
C29_Witness ==
  /\ last.op = "savePoints"
  /\ last.note = "logged"
  /\ store.cache.list = store.given
  /\ points = store.given
  /\ store.remote # store.given

\* C30: when loadGalaxyWorlds has finished, the loading flag is clear and
\* the point list is not empty: it is the remote list when the remote store
\* answered with worlds, else the list of the cache when that holds points,
\* else the default layout.
C30_NeverEmpty ==
  last.op = "loadGalaxyWorlds" =>
    /\ ~store.isLoadingWorlds
    /\ Len(points) > 0
    /\ points =
         IF last.note = "answered" /\ Len(store.remote) > 0 THEN store.remote
         ELSE IF store.cache.kind = "list" /\ Len(store.cache.list) > 0
           THEN store.cache.list
         ELSE DefaultPoints

\* The handlers of pointer movement.
MoveHandlers == {"handlePointMouseMove", "handleGlobalMouseMove", "handleGlobalTouchMove"}

\* A step that ends a drag or a resize of a point.
EndsEdit ==
  \/ editing.draggingPoint # NULL /\ editing'.draggingPoint = NULL
  \/ editing.resizingPoint # NULL /\ editing'.resizingPoint = NULL

\* C31: edits of points reach the store only on release: no handler of
\* pointer movement calls savePoints, savePoints is called only for a
\* mouseup or a touchend, and every step that ends a drag or a resize calls
\* savePoints with the latest edited list (positions and scales).
C31_SavedOnReleaseOnly ==
  [][/\ last'.op \in MoveHandlers =>
          store' = store /\ editing'.saveCalls = editing.saveCalls
     /\ editing'.saveCalls # editing.saveCalls =>
          last'.note \in {"mouseup", "touchend"}
     /\ EndsEdit =>
          /\ editing'.saveCalls = editing.saveCalls + 1
          /\ store'.given = points
          /\ editing'.given = editing.scales]_vars

\* C36: for a user who is not the administrator no pointer event, on a
\* point or on the map, changes a position or a scale, starts a drag or a
\* resize of a point, or calls savePoints.
C36_OnlyAdminEdits ==
  [][~editing.isAdmin =>
       /\ points' = points
       /\ editing'.scales = editing.scales
       /\ editing'.draggingPoint = NULL
       /\ editing'.resizingPoint = NULL
       /\ editing'.saveCalls = editing.saveCalls
       /\ store' = store]_vars

\* A user who is not the administrator has pressed points with and without
\* Ctrl, and releases the mouse after a drag of the map.
C36_Witness ==
  /\ ~editing.isAdmin
  /\ editing.events >= 2
  /\ hasMoved
  /\ last.op = "MouseUp"

\* A number that is not NaN, and within [lo, hi].
FiniteWithin(x, lo, hi) == ~IsNaN(x) /\ lo <= x /\ x <= hi

\* C32: after a drag step with an invalid delta the ship position, the map
\* offset and the velocity are numbers within their ranges, so that no later
\* step finds a NaN in them.
C32_InvalidDeltaClamped ==
  /\ FiniteWithin(shipPosition[1], 0, ShipWidth - 1)
  /\ FiniteWithin(shipPosition[2], 0, ShipHeight - 1)
  /\ FiniteWithin(mapOffset[1], -(WrapThreshold * Res), WrapThreshold * Res)
  /\ FiniteWithin(mapOffset[2], -(WrapThreshold * Res), WrapThreshold * Res)
  /\ FiniteWithin(velocity[1], -MaxVel, MaxVel)
  /\ FiniteWithin(velocity[2], -MaxVel, MaxVel)

\* C33: from a map offset at most 1190 from the origin, no drag step,
\* momentum tick, autopilot tick or repulsion commits a map offset farther
\* than 1190 from the origin.
C33_BarrierHolds == ~BeyondRadius(mapOffset, BandInner * Res)

\* C34: in every drag step, with or without a wrap of a ship coordinate,
\* the map offset given to checkBarrierCollision is the current map offset
\* plus the pointer delta.
C34_ProposedIsCommitted ==
  [][last'.op = "MouseMove" =>
       lastCollision'.proposed =
         <<mapOffset[1] + last'.delta[1] * Res,
           mapOffset[2] + last'.delta[2] * Res>>]_vars

\* The direction from (50, 50) to the ship.
Outwards(ship) == Atan2(ship.y - 50 * NpcRes, ship.x - 50 * NpcRes)

\* An unpaused ship on the edge of its domain whose heading is within 0.41
\* rad of the outward direction (a bounce leaves it within 0.4).
Trapped(ship) ==
  /\ ~ship.isPaused
  /\ (ship.x - 50 * NpcRes) * (ship.x - 50 * NpcRes)
       + (ship.y - 50 * NpcRes) * (ship.y - 50 * NpcRes)
       = (DomainRadius * NpcRes) * (DomainRadius * NpcRes)
  /\ AngularDistance(ship.direction, Outwards(ship))
       <= (4 * AngleScale) \div 10 + AngleScale \div 100

\* Whatever the speed and the random numbers of a tick, a trapped ship keeps
\* its position and is trapped again.
TrapIsClosed ==
  [][Trapped(wanderingShip) =>
       /\ wanderingShip'.x = wanderingShip.x
       /\ wanderingShip'.y = wanderingShip.y
       /\ Trapped(wanderingShip')]_vars

\* C35: the merchant ship is never immobilised for good while unpaused: its
\* position always changes again.  Since no tick moves a trapped ship or
\* frees it (TrapIsClosed), this requires that the ship is never trapped.
C35_NeverTrapped == ~Trapped(wanderingShip)

\* getIsPlaying() and getIsPaused()
getIsPlaying(m) == m.isPlaying /\ ~m.isPaused

getIsPaused(m) == m.isPaused

\* C37: a play() that returns, in a run of calls made one after the other,
\* leaves getIsPlaying() true and getIsPaused() false.
C37_PlayReportsPlaying ==
  (music.settled.op = "play" /\ music.settled.how = "returned" /\ ~music.overlapped)
    => (getIsPlaying(music) /\ ~getIsPaused(music))

\* C38: in file mode, when play() has returned and the service is playing
\* and not paused, there is a current track (an audio element whose play()
\* was fulfilled: currentTrack is assigned nowhere else).
C38_PlayingHasTrack ==
  (/\ ~music.isUsingSynthetic
   /\ music.settled.op = "play" /\ music.settled.how = "returned"
   /\ music.isPlaying /\ ~music.isPaused)
    => music.currentTrack # NULL

\* Call c is a pause() or stop() that awaits its fade-out.
Fading(c) == c <= Len(music.calls) /\ music.calls[c].pc = "fading"

\* Call c has resolved.
Resolved(c) == c <= Len(music.calls) /\ music.calls[c].pc = "done"

\* C39: every pause() and stop() that awaits its fade-out resolves in the
\* end, and when a stop() has resolved isPlaying and isPaused are false and
\* there is no current track.
C39_FadeOutResolves ==
  /\ \A c \in 1 .. MaxCalls : Fading(c) ~> Resolved(c)
  /\ [](music.settled.op = "stop" /\ music.settled.how = "returned"
          => ~music.isPlaying /\ ~music.isPaused /\ music.currentTrack = NULL)

=============================================================================
